---------------------------- MODULE Spec2Model ----------------------------
(***************************************************************************)
(* Model of the three-fluid-sim solver pipeline.                           *)
(*                                                                         *)
(* Two levels are modelled.  The frame loop (render, Reset, the GUI and    *)
(* pointer handlers) is modelled at the level of texture identities: which *)
(* buffer every pass reads and which one it writes.  The shaders are       *)
(* modelled cell by cell on a small grid with exact integer arithmetic.    *)
(***************************************************************************)
EXTENDS Integers, Sequences, FiniteSets, TLC

VARIABLES
  configuration,   \* the configuration object (index.ts)
  inputTouches,    \* the active pointer list
  measurements,    \* the measurement probes
  v, c, d, p,      \* the texture references of index.ts
  emitterPositions,\* the enabled flag (z) of the four smoke emitters
  smokeTimeAdvance,\* history: timesteps dt the handler that ran last added to smokeTime
  rtIndex,         \* RenderTarget.index of each render target
  renderTarget,    \* the render target the renderer is bound to
  uniforms,        \* the uniforms of every pass
  bufferContent,   \* history: which pass wrote the content of each texture
  passLog,         \* history: the render passes of the handler that ran last
  simSteps,        \* history: simulated steps so far, saturating at 2
  window,          \* window.innerWidth and window.innerHeight, in pixels
  resolution,      \* the resolution vector of index.ts, in tenths of a pixel
  rtResolution,    \* the resolution of the buffers of each render target
  startup,         \* the half-float extensions, the alert and the progress of the page load
  probeValues,     \* the values stored on the probes and measurementBuffer (SpecReadback)
  measurementFolders, \* the folders of the "Measurements" folder, one for each probe
  pressureField,   \* content of the pressure texture p, cell by cell
  divergenceField, \* content of the divergence texture d, cell by cell
  shaderRun        \* history: input and output of the shader pass run last

pipelineVars == <<configuration, inputTouches, measurements, v, c, d, p,
                  emitterPositions, smokeTimeAdvance, rtIndex, renderTarget,
                  uniforms, bufferContent, passLog, simSteps,
                  window, resolution, rtResolution, startup,
                  probeValues, measurementFolders>>

sizeVars == <<window, resolution, rtResolution>>

stepVars == <<v, c, d, p, emitterPositions, rtIndex, renderTarget, uniforms,
              bufferContent, simSteps, sizeVars, startup, probeValues>>

glVars == <<stepVars, measurementFolders>>

gridVars == <<pressureField, divergenceField, shaderRun>>

vars == <<pipelineVars, gridVars>>

-----------------------------------------------------------------------------
(* Bounds of the model *)

MaxIterations == 17
MaxTouches == 1
TouchIds == {0}
GridW == 5
GridH == 5
MaxJacobiPasses == 3
MaxProbes == 3
MaxProjectionPasses == 34
MaxPointers == 2

\* const MAX_MEASUREMENTS = 8
MAX_MEASUREMENTS == 8
BigLimbs == 8
BigBase == 10000
SmokeGridW == 10
SmokeGridH == 10

(* Program constants *)

MinIterations == 16
numSamples == 8

-----------------------------------------------------------------------------
(* Textures.  A texture is identified by its owner and a buffer index. *)

undefined == <<"undefined", 0>>
DEFAULT_IMAGE == <<"DEFAULT_IMAGE", 0>>
velocityInitTexture == <<"velocityInitTexture", 0>>
colorInitTexture == <<"colorInitTexture", 0>>
screen == <<"screen", 0>>

RenderTargets == {"velocityRT", "divergenceRT", "pressureRT", "colorRT", "measurementRT"}

nBuffers ==
  [velocityRT |-> 2, divergenceRT |-> 1, pressureRT |-> 2, colorRT |-> 2,
   measurementRT |-> 1]

RTTexture(rt, i) == <<rt, i>>

BufferTextures == {RTTexture(rt, i) : rt \in RenderTargets, i \in 0..1}

Textures == BufferTextures \cup {DEFAULT_IMAGE, velocityInitTexture, colorInitTexture}

FieldOf(t) ==
  CASE t[1] \in {"velocityInitTexture", "velocityRT"} -> "velocity"
    [] t[1] \in {"colorInitTexture", "colorRT"} -> "dye"
    [] t[1] = "divergenceRT" -> "divergence"
    [] t[1] = "pressureRT" -> "pressure"
    [] OTHER -> "none"

(* History of the pressure buffers: whether a buffer holds the result of  *)
(* the last Jacobi iteration of a step, and how many simulated steps ago   *)
(* it was written (0 = the step in progress or just finished).             *)
TrackedTextures == {RTTexture("pressureRT", i) : i \in 0..1}

Tag(pass, last) == [pass |-> pass, last |-> last, age |-> 0]

blank == [pass |-> "blank", last |-> FALSE, age |-> 0]

untracked == [pass |-> "untracked", last |-> FALSE, age |-> 0]

Older(tag) == IF tag = blank THEN tag ELSE [tag EXCEPT !.age = IF @ < 2 THEN @ + 1 ELSE 2]

ContentOf(st, t) == IF t \in DOMAIN st.bufferContent THEN st.bufferContent[t] ELSE untracked

-----------------------------------------------------------------------------
(* RenderTarget and renderer *)

\* RenderTarget.set: binds the buffer at index, advances index, and
\* returns (here: leaves in renderTarget) the texture of that buffer.
RenderTargetSet(st, rt) ==
  [st EXCEPT !.renderTarget = RTTexture(rt, st.rtIndex[rt]),
             !.rtIndex[rt] = (@ + 1) % nBuffers[rt]]

\* renderer.render(pass.scene, camera): the pass samples the textures its
\* sampler uniforms hold (reads: uniform name -> texture) and writes every
\* cell of the bound render target.
RendererRender(st, pass, reads, last) ==
  LET entry == [pass |-> pass,
                target |-> st.renderTarget,
                reads |-> {[uniform |-> k, texture |-> reads[k],
                            tag |-> ContentOf(st, reads[k])] : k \in DOMAIN reads}]
  IN [st EXCEPT !.passLog = Append(@, entry),
                !.bufferContent =
                   IF st.renderTarget \in DOMAIN @
                   THEN [@ EXCEPT ![st.renderTarget] = Tag(pass, last)]
                   ELSE @]

Evaluated(st) == DOMAIN st # {}

\* The "if (uniforms.x !== undefined)" assignment of update() in
\* JacobiIterationsPass, CompositionPass and MeasurementPass.
SetUniform(st, pass, k, value) ==
  IF value = undefined THEN st
  ELSE [st EXCEPT !.uniforms[pass][k] = value]

\* update() of the passes whose source is not in the repository snapshot
\* (AdvectionPass, TouchColorPass): the same optional-override assignment.
AdvectionPassUpdate(st, pass, k, value) ==
  IF value = undefined THEN st
  ELSE [st EXCEPT !.uniforms[pass][k] = value]

TouchColorPassUpdate(st, k, value) ==
  IF value = undefined THEN st
  ELSE [st EXCEPT !.uniforms["touchColorAdditionPass"][k] = value]

-----------------------------------------------------------------------------
(* The stages of render(), in source order.  st is the record of the      *)
(* mutable state render() works on; cfg is the configuration object.      *)
(* The uniforms variable holds the sampler uniforms that can carry a      *)
(* texture from one handler call to a later one.  A sampler that render() *)
(* assigns from v, d or p immediately before it renders the pass (v, d, p *)
(* are set earlier in the same step) is given to RendererRender directly. *)

\* v = velocityRT.set(renderer), and likewise for c, d, p
SetV(st) == LET s1 == RenderTargetSet(st, "velocityRT") IN [s1 EXCEPT !.v = s1.renderTarget]

SetC(st) == LET s1 == RenderTargetSet(st, "colorRT") IN [s1 EXCEPT !.c = s1.renderTarget]

SetD(st) == LET s1 == RenderTargetSet(st, "divergenceRT") IN [s1 EXCEPT !.d = s1.renderTarget]

SetP(st) == LET s1 == RenderTargetSet(st, "pressureRT") IN [s1 EXCEPT !.p = s1.renderTarget]

VelocityAdvectionStage(st) ==
  RendererRender(SetV(st), "velocityAdvectionPass", st.uniforms["velocityAdvectionPass"], FALSE)

TouchForceStage(st) ==
  RendererRender(SetV(st), "touchForceAdditionPass", [velocity |-> st.v], FALSE)

TouchColorStage(st) ==
  LET s1 == TouchColorPassUpdate(st, "color", st.c)
  IN RendererRender(SetC(s1), "touchColorAdditionPass", s1.uniforms["touchColorAdditionPass"], FALSE)

TouchStage(st, cfg, touches) ==
  IF Len(touches) > 0
  THEN LET s1 == TouchForceStage(st)
       IN IF cfg.AddColor THEN TouchColorStage(s1) ELSE s1
  ELSE st

FlowSourceStage(st, cfg) ==
  IF cfg.FlowEnabled
  THEN RendererRender(SetV(st), "flowSourcePass", [velocity |-> st.v], FALSE)
  ELSE st

BoundaryStage(st, cfg) ==
  IF cfg.Boundaries \/ cfg.ChevronEnabled
  THEN RendererRender(SetV(st), "velocityBoundary", [velocity |-> st.v], FALSE)
  ELSE st

DivergenceStage(st) ==
  RendererRender(SetD(st), "velocityDivergencePass", [velocity |-> st.v], FALSE)

PressureSamplers(st) ==
  [k \in {"previousIteration", "divergence"} |-> st.uniforms["pressurePass"][k]]

\* One turn of the loop of render():
\*   p = pressureRT.set(renderer); renderer.render(...);
\*   pressurePass.update({ previousIteration: p })
JacobiIteration(st, i, n) ==
  LET s1 == RendererRender(SetP(st), "pressurePass", PressureSamplers(st), i = n - 1)
  IN SetUniform(s1, "pressurePass", "previousIteration", s1.p)

\* Mutant: the loop stops one iteration early.
RECURSIVE JacobiLoopEarlyExit(_, _, _)
JacobiLoopEarlyExit(st, i, n) ==
  IF i < n - 1 /\ Evaluated(st)
  THEN JacobiLoopEarlyExit(JacobiIteration(st, i, n), i + 1, n) ELSE st

\* for (let i = 0; i < configuration.Iterations; ++i) { ... }
\* (Evaluated(st) is always true; it makes TLC evaluate st before the next turn.)
RECURSIVE JacobiLoop(_, _, _)
JacobiLoop(st, i, n) ==
  IF i < n /\ Evaluated(st) THEN JacobiLoop(JacobiIteration(st, i, n), i + 1, n) ELSE st

PressureStage(st, cfg) ==
  LET s1 == SetUniform(st, "pressurePass", "divergence", st.d)
  IN JacobiLoop(s1, 0, cfg.Iterations)

GradientSubstractionStage(st) ==
  RendererRender(SetV(st), "pressureSubstractionPass",
                 [velocity |-> st.v, pressure |-> st.p], FALSE)

ColorAdvectionStage(st) ==
  LET s1 == AdvectionPassUpdate(st, "colorAdvectionPass", "inputTexture", st.c)
      s2 == AdvectionPassUpdate(s1, "colorAdvectionPass", "velocity", st.v)
  IN RendererRender(SetC(s2), "colorAdvectionPass", s2.uniforms["colorAdvectionPass"], FALSE)

SmokeStage(st, cfg) ==
  IF cfg.SmokeEnabled
  THEN LET s1 == [st EXCEPT !.smokeTimeAdvance = @ + 1,
                            !.emitterPositions =
                      [i \in 0..3 |-> IF i < cfg.SmokeEmitters THEN 1 ELSE 0]]
       IN RendererRender(SetC(s1), "smokeEmitterPass", [colorBuffer |-> s1.c], FALSE)
  ELSE st

\* "Feed the input of the advection passes with the last advected results."
FeedbackStage(st) ==
  LET s1 == AdvectionPassUpdate(st, "velocityAdvectionPass", "inputTexture", st.v)
      s2 == AdvectionPassUpdate(s1, "velocityAdvectionPass", "velocity", st.v)
  IN AdvectionPassUpdate(s2, "colorAdvectionPass", "inputTexture", st.c)

\* Mutant: the divergence is computed before the boundary stage has run.
SimulationStepDivergenceFirst(st, cfg, touches) ==
  LET s0 == [st EXCEPT !.bufferContent = [t \in DOMAIN @ |-> Older(@[t])]]
      s1 == VelocityAdvectionStage(s0)
      s2 == TouchStage(s1, cfg, touches)
      s3 == FlowSourceStage(s2, cfg)
      s4 == DivergenceStage(s3)
      s5 == BoundaryStage(s4, cfg)
      s6 == PressureStage(s5, cfg)
      s7 == GradientSubstractionStage(s6)
      s8 == ColorAdvectionStage(s7)
      s9 == SmokeStage(s8, cfg)
  IN FeedbackStage(s9)

\* The body of "if (configuration.Simulate) { ... }"
SimulationStep(st, cfg, touches) ==
  LET s0 == [st EXCEPT !.bufferContent = [t \in DOMAIN @ |-> Older(@[t])]]
      s1 == VelocityAdvectionStage(s0)
      s2 == TouchStage(s1, cfg, touches)
      s3 == FlowSourceStage(s2, cfg)
      s4 == BoundaryStage(s3, cfg)
      s5 == DivergenceStage(s4)
      s6 == PressureStage(s5, cfg)
      s7 == GradientSubstractionStage(s6)
      s8 == ColorAdvectionStage(s7)
      s9 == SmokeStage(s8, cfg)
  IN FeedbackStage(s9)

Visualization(st, cfg) ==
  CASE cfg.Visualize = "Color" -> st.c
    [] cfg.Visualize = "Velocity" -> st.v
    [] cfg.Visualize = "Divergence" -> st.d
    [] cfg.Visualize = "Pressure" -> st.p

VisualizationStage(st, cfg) ==
  LET s1 == [st EXCEPT !.renderTarget = screen]
      s2 == SetUniform(s1, "compositionPass", "colorBuffer", Visualization(st, cfg))
  IN RendererRender(s2, "compositionPass", s2.uniforms["compositionPass"], FALSE)

\* sampleAtPosition, at the level of texture identities
SampleAtPosition(st) ==
  LET s1 == RenderTargetSet(st, "measurementRT")
  IN RendererRender(s1, "measurementPass",
                    [pressureTexture |-> st.p, velocityTexture |-> st.v], FALSE)

RECURSIVE SampleTimes(_, _)
SampleTimes(st, k) ==
  IF k > 0 /\ Evaluated(st) THEN SampleTimes(SampleAtPosition(st), k - 1) ELSE st

\* updateMeasurements: 8 samples for an enabled line probe, 1 for a point probe
RECURSIVE UpdateMeasurementsFrom(_, _, _)
UpdateMeasurementsFrom(st, ms, i) ==
  IF i > Len(ms) \/ ~Evaluated(st) THEN st
  ELSE IF ~ms[i].enabled THEN UpdateMeasurementsFrom(st, ms, i + 1)
  ELSE UpdateMeasurementsFrom(
         SampleTimes(st, IF ms[i].type = "line" THEN numSamples ELSE 1), ms, i + 1)

UpdateMeasurements(st, ms) ==
  IF st.p = undefined \/ st.v = undefined THEN st
  ELSE UpdateMeasurementsFrom(st, ms, 1)

\* Mutant: the frame runs the simulation step whatever Simulate is.
RenderResultIgnoringSimulate(st, cfg, touches, ms) ==
  LET s0 == [st EXCEPT !.passLog = <<>>, !.smokeTimeAdvance = 0]
      s1 == SimulationStep(s0, cfg, touches)
      s2 == VisualizationStage(s1, cfg)
  IN UpdateMeasurements(s2, ms)

\* render()
RenderResult(st, cfg, touches, ms) ==
  LET s0 == [st EXCEPT !.passLog = <<>>, !.smokeTimeAdvance = 0]
      s1 == IF cfg.Simulate THEN SimulationStep(s0, cfg, touches) ELSE s0
      s2 == VisualizationStage(s1, cfg)
  IN UpdateMeasurements(s2, ms)

-----------------------------------------------------------------------------
(* Cell-level content of the textures.  A field maps each cell <<i, j>> of the
   GridW x GridH grid to the value the texture holds at the cell's centre,
   vUV = ((2i+1)/(2 GridW), (2j+1)/(2 GridH)); texelSize = (1/GridW, 1/GridH).
   Positions in aspect-scaled uv space are integers in units of
   1/(2 GridH 1000); configuration lengths are in thousandths.  Pressure is
   an exact fraction: a field of numerators over one denominator. *)

Cells == (0..(GridW - 1)) \X (0..(GridH - 1))

ZeroField == [cell \in Cells |-> 0]

\* GLSL built-ins
clamp(x, lo, hi) == IF x < lo THEN lo ELSE IF x > hi THEN hi ELSE x
abs(x) == IF x < 0 THEN -x ELSE x
ceil(num, den) == -((-num) \div den)

\* Mutant: the two ends of a mix are swapped.
mixSwapped(x, y, a) == y * (1 - a) + x * a

mix(x, y, a) == x * (1 - a) + y * a

\* texture2D at the centre of cell <<i, j>>, clamped to the edge of the texture
texture2D(field, i, j) == field[<<clamp(i, 0, GridW - 1), clamp(j, 0, GridH - 1)>>]

\* cos and sin of the slider's angles, in thousandths
cosTable == (15 :> 966) @@ (30 :> 866) @@ (45 :> 707) @@ (60 :> 500) @@ (75 :> 259)
sinTable == (15 :> 259) @@ (30 :> 500) @@ (45 :> 707) @@ (60 :> 866) @@ (75 :> 966)
cos(deg) == cosTable[abs(deg)]
sin(deg) == IF deg < 0 THEN -sinTable[-deg] ELSE sinTable[deg]

\* A configuration length in aspect-scaled uv units
Length(thousandths) == thousandths * 2 * GridH

\* float insideRotatedRect(vec2 p, vec2 center, float length, float width, float angleDeg)
insideRotatedRect(pt, center, length, width, angleDeg) ==
  LET cosA == cos(-angleDeg)
      sinA == sin(-angleDeg)
      local == <<pt[1] - center[1], pt[2] - center[2]>>
      rotated == <<local[1] * cosA - local[2] * sinA,
                   local[1] * sinA + local[2] * cosA>>      \* times 1000
  IN IF 2 * abs(rotated[1]) <= length * 1000 /\ 2 * abs(rotated[2]) <= width * 1000
     THEN 1 ELSE 0

\* The uniforms render() hands to velocityBoundary.update
BoundaryUniforms(cfg) ==
  [flowEnabled |-> cfg.FlowEnabled, chevronEnabled |-> cfg.ChevronEnabled,
   chevronColumns |-> cfg.ChevronColumns, chevronRows |-> cfg.ChevronRows,
   chevronLength |-> cfg.ChevronLength, chevronWidth |-> cfg.ChevronWidth,
   chevronAngle |-> cfg.ChevronAngle, chevronGap |-> cfg.ChevronGap,
   chevronSpacingX |-> cfg.ChevronSpacingX, chevronSpacingY |-> cfg.ChevronSpacingY]

\* The rectangle of a row and a column: its centre and its angle
ChevronRect(u, row, col) ==
  LET aspectX == 2 * GridW * 1000
      one == 2 * GridH * 1000
      totalWidth == u.chevronColumns * Length(u.chevronSpacingX)
      totalHeight == u.chevronRows * Length(u.chevronSpacingY)
      startX == (aspectX - totalWidth) \div 2 + Length(u.chevronSpacingX) \div 2
      startY == (one - totalHeight) \div 2 + Length(u.chevronSpacingY) \div 2
      even == col % 2 = 0
      gapOffset == (Length(u.chevronGap) \div 2) * (IF even THEN -1 ELSE 1)
  IN [center |-> <<startX + col * Length(u.chevronSpacingX) + gapOffset,
                   startY + row * Length(u.chevronSpacingY)>>,
      angle |-> IF even THEN u.chevronAngle ELSE -u.chevronAngle]

\* The rectangles of the two loops, which stop at 20 rows and 20 columns
ChevronLoop(u) ==
  (0..(clamp(u.chevronRows, 0, 20) - 1)) \X (0..(clamp(u.chevronColumns, 0, 20) - 1))

\* The sum of insideRotatedRect over the rectangles, before it is clamped
ChevronSum(u, cell) ==
  LET scaledUV == <<(2 * cell[1] + 1) * 1000, (2 * cell[2] + 1) * 1000>>
  IN Cardinality({rc \in ChevronLoop(u) :
       LET rect == ChevronRect(u, rc[1], rc[2])
       IN insideRotatedRect(scaledUV, rect.center, Length(u.chevronLength),
                            Length(u.chevronWidth), rect.angle) = 1})

\* Mutant: the sum of the rectangles is written out as it is.
ObstacleMaskShaderUnclamped(u, cell) ==
  IF u.chevronEnabled THEN ChevronSum(u, cell) ELSE 0

\* ObstacleMaskPass fragment shader: the red channel of a cell
ObstacleMaskShader(u, cell) ==
  IF u.chevronEnabled THEN clamp(ChevronSum(u, cell), 0, 1) ELSE 0

\* Mutant: the side walls stay closed when flow is enabled.
EdgeMaskIgnoringFlow(flowEnabled, cell) ==
  LET leftEdgeMask == ceil(2 - (2 * cell[1] + 1), 2 * GridW)
      bottomEdgeMask == ceil(2 - (2 * cell[2] + 1), 2 * GridH)
      rightEdgeMask == ceil((2 * cell[1] + 1) - (2 * GridW - 2), 2 * GridW)
      topEdgeMask == ceil((2 * cell[2] + 1) - (2 * GridH - 2), 2 * GridH)
  IN clamp(leftEdgeMask + bottomEdgeMask + rightEdgeMask + topEdgeMask, 0, 1)

\* BoundaryPass fragment shader: edgeMask, every term times 2 GridW or 2 GridH
EdgeMask(flowEnabled, cell) ==
  LET leftEdgeMask == ceil(2 - (2 * cell[1] + 1), 2 * GridW)
      bottomEdgeMask == ceil(2 - (2 * cell[2] + 1), 2 * GridH)
      rightEdgeMask == ceil((2 * cell[1] + 1) - (2 * GridW - 2), 2 * GridW)
      topEdgeMask == ceil((2 * cell[2] + 1) - (2 * GridH - 2), 2 * GridH)
  IN IF flowEnabled
     THEN clamp(bottomEdgeMask + topEdgeMask, 0, 1)
     ELSE clamp(leftEdgeMask + bottomEdgeMask + rightEdgeMask + topEdgeMask, 0, 1)

\* Mutant: the edge and the chevron masks are added without the clamp.
BoundaryShaderUnclamped(velocity, u, cell) ==
  LET edgeMask == EdgeMask(u.flowEnabled, cell)
      chevronMask == IF u.chevronEnabled THEN clamp(ChevronSum(u, cell), 0, 1) ELSE 0
      mask == edgeMask + chevronMask
      direction == mix(1, -1, mask)
      value == texture2D(velocity, cell[1], cell[2])
  IN <<value[1] * direction, value[2] * direction>>

\* BoundaryPass fragment shader: the velocity written to a cell
BoundaryShader(velocity, u, cell) ==
  LET edgeMask == EdgeMask(u.flowEnabled, cell)
      chevronMask == IF u.chevronEnabled THEN clamp(ChevronSum(u, cell), 0, 1) ELSE 0
      mask == clamp(edgeMask + chevronMask, 0, 1)
      direction == mix(1, -1, mask)
      value == texture2D(velocity, cell[1], cell[2])
  IN <<value[1] * direction, value[2] * direction>>

\* JacobiIterationsPass uniforms alpha and beta = BetaNum / BetaDen
alpha == -1
BetaNum == 1
BetaDen == 4

\* What a sampler without an image reads
DefaultImageContent == ZeroField

\* Mutant: the left neighbour is read at the centre.
JacobiShaderStaleLeft(previousIteration, divergence, obstacleMask, useObstacleMask, cell) ==
  LET i == cell[1]
      j == cell[2]
      prev == previousIteration.num
      centerMask == texture2D(obstacleMask, i, j)
      center == texture2D(prev, i, j)
      x0 == texture2D(prev, i, j)
      x1 == IF useObstacleMask /\ (2 * i + 1 > 2 * GridW - 3) THEN 0
            ELSE IF useObstacleMask /\ 2 * texture2D(obstacleMask, i + 1, j) > 1 THEN center
            ELSE texture2D(prev, i + 1, j)
      y0 == IF useObstacleMask /\ (2 * j + 1 < 3 \/ 2 * texture2D(obstacleMask, i, j - 1) > 1)
            THEN center ELSE texture2D(prev, i, j - 1)
      y1 == IF useObstacleMask /\ (2 * j + 1 > 2 * GridH - 3 \/ 2 * texture2D(obstacleMask, i, j + 1) > 1)
            THEN center ELSE texture2D(prev, i, j + 1)
      dv == texture2D(divergence, i, j)
  IN IF useObstacleMask /\ 2 * centerMask > 1 THEN 0
     ELSE IF useObstacleMask /\ 2 * i + 1 > 2 * GridW - 3 THEN 0
     ELSE (x0 + x1 + y0 + y1 + alpha * dv * previousIteration.den) * BetaNum

\* JacobiIterationsPass fragment shader: the numerator written to a cell, over
\* the denominator previousIteration.den * BetaDen
JacobiShader(previousIteration, divergence, obstacleMask, useObstacleMask, cell) ==
  LET i == cell[1]
      j == cell[2]
      prev == previousIteration.num
      centerMask == texture2D(obstacleMask, i, j)
      center == texture2D(prev, i, j)
      x0 == IF useObstacleMask /\ (2 * i + 1 < 3 \/ 2 * texture2D(obstacleMask, i - 1, j) > 1)
            THEN center ELSE texture2D(prev, i - 1, j)
      x1 == IF useObstacleMask /\ (2 * i + 1 > 2 * GridW - 3) THEN 0
            ELSE IF useObstacleMask /\ 2 * texture2D(obstacleMask, i + 1, j) > 1 THEN center
            ELSE texture2D(prev, i + 1, j)
      y0 == IF useObstacleMask /\ (2 * j + 1 < 3 \/ 2 * texture2D(obstacleMask, i, j - 1) > 1)
            THEN center ELSE texture2D(prev, i, j - 1)
      y1 == IF useObstacleMask /\ (2 * j + 1 > 2 * GridH - 3 \/ 2 * texture2D(obstacleMask, i, j + 1) > 1)
            THEN center ELSE texture2D(prev, i, j + 1)
      dv == texture2D(divergence, i, j)
  IN IF useObstacleMask /\ 2 * centerMask > 1 THEN 0
     ELSE IF useObstacleMask /\ 2 * i + 1 > 2 * GridW - 3 THEN 0
     ELSE (x0 + x1 + y0 + y1 + alpha * dv * previousIteration.den) * BetaNum

\* Mutant: a forward difference in x, from the centre to the right neighbour.
DivergenceShaderForward(velocity, obstacleMask, useObstacleMask, cell) ==
  LET i == cell[1]
      j == cell[2]
      vCenter == texture2D(velocity, i, j)
      x0 == vCenter[1]
      x1 == IF useObstacleMask /\ (2 * i + 1 > 2 * GridW - 3 \/ 2 * texture2D(obstacleMask, i + 1, j) > 1)
            THEN vCenter[1] ELSE texture2D(velocity, i + 1, j)[1]
      y0 == IF useObstacleMask /\ (2 * j + 1 < 3 \/ 2 * texture2D(obstacleMask, i, j - 1) > 1)
            THEN vCenter[2] ELSE texture2D(velocity, i, j - 1)[2]
      y1 == IF useObstacleMask /\ (2 * j + 1 > 2 * GridH - 3 \/ 2 * texture2D(obstacleMask, i, j + 1) > 1)
            THEN vCenter[2] ELSE texture2D(velocity, i, j + 1)[2]
  IN IF useObstacleMask /\ 2 * texture2D(obstacleMask, i, j) > 1 THEN 0
     ELSE x1 - x0 + y1 - y0

\* DivergencePass fragment shader: the numerator written to a cell, over the
\* denominator 2 of "* 0.5"
DivergenceShader(velocity, obstacleMask, useObstacleMask, cell) ==
  LET i == cell[1]
      j == cell[2]
      vCenter == texture2D(velocity, i, j)
      x0 == IF useObstacleMask /\ (2 * i + 1 < 3 \/ 2 * texture2D(obstacleMask, i - 1, j) > 1)
            THEN vCenter[1] ELSE texture2D(velocity, i - 1, j)[1]
      x1 == IF useObstacleMask /\ (2 * i + 1 > 2 * GridW - 3 \/ 2 * texture2D(obstacleMask, i + 1, j) > 1)
            THEN vCenter[1] ELSE texture2D(velocity, i + 1, j)[1]
      y0 == IF useObstacleMask /\ (2 * j + 1 < 3 \/ 2 * texture2D(obstacleMask, i, j - 1) > 1)
            THEN vCenter[2] ELSE texture2D(velocity, i, j - 1)[2]
      y1 == IF useObstacleMask /\ (2 * j + 1 > 2 * GridH - 3 \/ 2 * texture2D(obstacleMask, i, j + 1) > 1)
            THEN vCenter[2] ELSE texture2D(velocity, i, j + 1)[2]
  IN IF useObstacleMask /\ 2 * texture2D(obstacleMask, i, j) > 1 THEN 0
     ELSE x1 - x0 + y1 - y0

\* GradientSubstractionPass fragment shader: the numerators written to a cell,
\* over the denominator 2 * pressure.den
GradientSubstractionShader(velocity, pressure, obstacleMask, useObstacleMask, cell) ==
  LET i == cell[1]
      j == cell[2]
      pCenter == texture2D(pressure.num, i, j)
      x0 == IF useObstacleMask /\ (2 * i + 1 < 3 \/ 2 * texture2D(obstacleMask, i - 1, j) > 1)
            THEN pCenter ELSE texture2D(pressure.num, i - 1, j)
      x1 == IF useObstacleMask /\ (2 * i + 1 > 2 * GridW - 3) THEN 0
            ELSE IF useObstacleMask /\ 2 * texture2D(obstacleMask, i + 1, j) > 1 THEN pCenter
            ELSE texture2D(pressure.num, i + 1, j)
      y0 == IF useObstacleMask /\ (2 * j + 1 < 3 \/ 2 * texture2D(obstacleMask, i, j - 1) > 1)
            THEN pCenter ELSE texture2D(pressure.num, i, j - 1)
      y1 == IF useObstacleMask /\ (2 * j + 1 > 2 * GridH - 3 \/ 2 * texture2D(obstacleMask, i, j + 1) > 1)
            THEN pCenter ELSE texture2D(pressure.num, i, j + 1)
      vel == texture2D(velocity, i, j)
  IN IF useObstacleMask /\ 2 * texture2D(obstacleMask, i, j) > 1 THEN <<0, 0>>
     ELSE <<vel[1] * 2 * pressure.den - (x1 - x0), vel[2] * 2 * pressure.den - (y1 - y0)>>

\* A pressure buffer nothing has been rendered into
blankPressure == [num |-> ZeroField, den |-> 1]

\* history: no cell-level pass ran in the handler run last
noRun == [pass |-> "none"]

-----------------------------------------------------------------------------
(* State after the top-level code of index.ts has run *)

\* Lengths are in thousandths, angles in degrees, Scale in tenths.
InitConfiguration ==
  [Simulate |-> TRUE, Scale |-> 5, Iterations |-> 32, Boundaries |-> TRUE, AddColor |-> TRUE,
   FlowEnabled |-> TRUE, ChevronEnabled |-> TRUE,
   ChevronColumns |-> 3, ChevronRows |-> 8, ChevronLength |-> 150,
   ChevronWidth |-> 25, ChevronAngle |-> 45, ChevronGap |-> 0,
   ChevronSpacingX |-> 130, ChevronSpacingY |-> 120,
   Visualize |-> "Pressure", SmokeEnabled |-> TRUE, SmokeEmitters |-> 3,
   SmokeRadius |-> 15, SmokeIntensity |-> 400,
   FluidPreset |-> "Water", Viscosity |-> 10, ColorDecay |-> 50]

InitUniforms ==
  [velocityAdvectionPass |-> [inputTexture |-> velocityInitTexture, velocity |-> velocityInitTexture],
   colorAdvectionPass |-> [inputTexture |-> colorInitTexture, velocity |-> velocityInitTexture],
   touchColorAdditionPass |-> [color |-> DEFAULT_IMAGE],
   pressurePass |-> [previousIteration |-> DEFAULT_IMAGE, divergence |-> DEFAULT_IMAGE,
                     obstacleMask |-> DEFAULT_IMAGE, useObstacleMask |-> FALSE],
   velocityDivergencePass |-> [obstacleMask |-> DEFAULT_IMAGE, useObstacleMask |-> FALSE],
   pressureSubstractionPass |-> [obstacleMask |-> DEFAULT_IMAGE, useObstacleMask |-> FALSE],
   compositionPass |-> [colorBuffer |-> DEFAULT_IMAGE]]

\* x and y are in thousandths
InitMeasurements ==
  << [type |-> "line", x |-> 750, y |-> 500, enabled |-> TRUE],
     [type |-> "line", x |-> 1300, y |-> 500, enabled |-> TRUE] >>

\* rebuildMeasurementGUI: a folder for each probe, named after its type and its
\* place, with the index i its Remove button has captured
rebuildMeasurementGUI(ms) ==
  [k \in DOMAIN ms |->
     [name |-> <<IF ms[k].type = "line" THEN "Line" ELSE "Point", k>>, i |-> k - 1]]

InitBufferContent == [t \in TrackedTextures |-> blank]

\* pressure: 0, velocityX: 0, velocityY: 0, velocityMag: 0, pressureDisplay: "0.000",
\* velocityDisplay: "0.000" (values in thousandths; a display string as its sign,
\* digits before the point and digits after it)
ZeroValues ==
  [pressure |-> 0, velocityX |-> 0, velocityY |-> 0, velocityMag |-> 0,
   pressureDisplay |-> [negative |-> FALSE, whole |-> 0, decimals |-> 0],
   velocityDisplay |-> [negative |-> FALSE, whole |-> 0, decimals |-> 0]]

\* The values of the two initial probes, and new Uint8Array(4)
InitProbeValues ==
  [values |-> [i \in DOMAIN InitMeasurements |-> ZeroValues],
   measurementBuffer |-> [ch \in {"pressure", "velX", "velY"} |-> 0]]

\* Sizes the browser window takes; a window that is collapsed or not laid out
\* (a hidden frame) reports an inner width or height of 0
WindowWidths == {0, 800, 1024, 1280}
WindowHeights == {0, 600, 768, 1024}

\* The size of the window when the page loads
InitWindow == [innerWidth |-> 1024, innerHeight |-> 768]

\* (configuration.Scale * window.innerWidth, configuration.Scale * window.innerHeight)
Resolution(scale, win) == <<scale * win.innerWidth, scale * win.innerHeight>>

GLInit ==
  /\ inputTouches = <<>>
  /\ measurements = InitMeasurements
  /\ v = undefined /\ c = undefined /\ d = undefined /\ p = undefined
  /\ emitterPositions = [i \in 0..3 |-> IF i < 3 THEN 1 ELSE 0]
  /\ smokeTimeAdvance = 0
  /\ rtIndex = [rt \in RenderTargets |-> 0]
  /\ renderTarget = screen
  /\ uniforms = InitUniforms
  /\ bufferContent = InitBufferContent
  /\ passLog = <<>>
  /\ simSteps = 0
  /\ window = InitWindow
  /\ resolution = Resolution(InitConfiguration.Scale, window)
  /\ rtResolution = [rt \in RenderTargets |->
                       IF rt = "measurementRT" THEN <<10, 10>> ELSE resolution]
  /\ probeValues = InitProbeValues
  /\ measurementFolders = rebuildMeasurementGUI(InitMeasurements)

\* The buffers are blank before the first frame
GridInit ==
  /\ pressureField = blankPressure
  /\ divergenceField = ZeroField
  /\ shaderRun = noRun

\* The extensions are there, no alert was shown and the page has loaded
Loaded == [extensions |-> TRUE, alerted |-> FALSE, loaded |-> TRUE]

PipelineInit ==
  /\ configuration = InitConfiguration
  /\ GLInit
  /\ GridInit
  /\ startup = Loaded

\* A handler followed at the level of texture identities
NoShaderRun ==
  /\ shaderRun' = noRun
  /\ UNCHANGED <<pressureField, divergenceField>>

-----------------------------------------------------------------------------
(* Handlers *)

State ==
  [v |-> v, c |-> c, d |-> d, p |-> p, emitterPositions |-> emitterPositions,
   smokeTimeAdvance |-> smokeTimeAdvance,
   rtIndex |-> rtIndex, renderTarget |-> renderTarget, uniforms |-> uniforms,
   bufferContent |-> bufferContent, passLog |-> passLog]

Install(st) ==
  /\ v' = st.v /\ c' = st.c /\ d' = st.d /\ p' = st.p
  /\ emitterPositions' = st.emitterPositions
  /\ smokeTimeAdvance' = st.smokeTimeAdvance
  /\ rtIndex' = st.rtIndex
  /\ renderTarget' = st.renderTarget
  /\ uniforms' = st.uniforms
  /\ bufferContent' = st.bufferContent
  /\ passLog' = st.passLog

\* One frame: animate() calls render()
Render ==
  /\ Install(RenderResult(State, configuration, inputTouches, measurements))
  /\ simSteps' = IF configuration.Simulate /\ simSteps < 2 THEN simSteps + 1 ELSE simSteps
  /\ UNCHANGED <<configuration, inputTouches, measurements, measurementFolders, sizeVars, startup, probeValues>>
  /\ NoShaderRun

\* Mutant: Reset also takes the next buffer of the velocity and dye targets.
ResetResultTakingBuffers(st) ==
  [st EXCEPT !.uniforms["velocityAdvectionPass"] =
                 [inputTexture |-> velocityInitTexture, velocity |-> velocityInitTexture],
             !.uniforms["colorAdvectionPass"] =
                 [inputTexture |-> colorInitTexture, velocity |-> velocityInitTexture],
             !.rtIndex["velocityRT"] = (@ + 1) % nBuffers["velocityRT"],
             !.rtIndex["colorRT"] = (@ + 1) % nBuffers["colorRT"],
             !.v = undefined, !.c = undefined, !.passLog = <<>>,
             !.smokeTimeAdvance = 0]

\* Mutant: Reset also forgets the pressure of the previous step.
ResetResultClearingPressure(st) ==
  [st EXCEPT !.uniforms["velocityAdvectionPass"] =
                 [inputTexture |-> velocityInitTexture, velocity |-> velocityInitTexture],
             !.uniforms["colorAdvectionPass"] =
                 [inputTexture |-> colorInitTexture, velocity |-> velocityInitTexture],
             !.uniforms["pressurePass"].previousIteration = DEFAULT_IMAGE,
             !.v = undefined, !.c = undefined, !.passLog = <<>>,
             !.smokeTimeAdvance = 0]

\* configuration.Reset
ResetResult(st) ==
  LET s1 == AdvectionPassUpdate(st, "velocityAdvectionPass", "inputTexture", velocityInitTexture)
      s2 == AdvectionPassUpdate(s1, "velocityAdvectionPass", "velocity", velocityInitTexture)
      s3 == AdvectionPassUpdate(s2, "colorAdvectionPass", "inputTexture", colorInitTexture)
      s4 == AdvectionPassUpdate(s3, "colorAdvectionPass", "velocity", velocityInitTexture)
  IN [s4 EXCEPT !.v = undefined, !.c = undefined, !.passLog = <<>>,
             !.smokeTimeAdvance = 0]

Reset ==
  /\ Install(ResetResult(State))
  /\ UNCHANGED <<configuration, inputTouches, measurements, measurementFolders, simSteps, sizeVars, startup, probeValues>>
  /\ NoShaderRun

\* The dat.GUI checkboxes of initGUI
Checkboxes == {"Simulate", "Boundaries", "AddColor", "FlowEnabled", "ChevronEnabled", "SmokeEnabled"}

Toggle(k) ==
  /\ configuration' = [configuration EXCEPT ![k] = ~@]
  /\ passLog' = <<>>
  /\ smokeTimeAdvance' = 0
  /\ UNCHANGED <<inputTouches, measurements, glVars>>
  /\ NoShaderRun

ToggleCheckbox == \E k \in Checkboxes : Toggle(k)

\* sim.add(configuration, "Iterations", 16, 128, 1)
SetIterations ==
  \E n \in MinIterations..MaxIterations :
    /\ configuration' = [configuration EXCEPT !.Iterations = n]
    /\ passLog' = <<>>
    /\ smokeTimeAdvance' = 0
    /\ UNCHANGED <<inputTouches, measurements, glVars>>
    /\ NoShaderRun

mouseId == <<"mouse", 0>>
TouchId(n) == <<"touch", n>>

\* "mouseup" listener, left button: inputTouches.pop()
MouseUpResult(touches) ==
  IF Len(touches) = 0 THEN touches ELSE SubSeq(touches, 1, Len(touches) - 1)

\* "touchend" listener, one changed touch: find, then filter by the id found
TouchEndResult(touches, n) == SelectSeq(touches, LAMBDA t : t.id # TouchId(n))

\* canvas "mousedown" listener, left button
MouseDown ==
  /\ Len(inputTouches) < MaxTouches
  /\ inputTouches' = Append(inputTouches, [id |-> mouseId])
  /\ passLog' = <<>>
  /\ smokeTimeAdvance' = 0
  /\ UNCHANGED <<configuration, measurements, glVars>>
  /\ NoShaderRun

\* canvas "mouseup" listener, left button: inputTouches.pop()
MouseUp ==
  /\ inputTouches' = MouseUpResult(inputTouches)
  /\ passLog' = <<>>
  /\ smokeTimeAdvance' = 0
  /\ UNCHANGED <<configuration, measurements, glVars>>
  /\ NoShaderRun

\* canvas "touchstart" listener, one changed touch
TouchStart ==
  \E n \in TouchIds :
    /\ Len(inputTouches) < MaxTouches
    /\ inputTouches' = Append(inputTouches, [id |-> TouchId(n)])
    /\ passLog' = <<>>
    /\ smokeTimeAdvance' = 0
    /\ UNCHANGED <<configuration, measurements, glVars>>
    /\ NoShaderRun

\* canvas "touchend" listener, one changed touch
TouchEnd ==
  \E n \in TouchIds :
    /\ inputTouches' = TouchEndResult(inputTouches, n)
    /\ passLog' = <<>>
    /\ smokeTimeAdvance' = 0
    /\ UNCHANGED <<configuration, measurements, glVars>>
    /\ NoShaderRun

Next ==
  \/ Render
  \/ Reset
  \/ ToggleCheckbox
  \/ SetIterations
  \/ MouseDown
  \/ MouseUp
  \/ TouchStart
  \/ TouchEnd

Spec == PipelineInit /\ [][Next]_vars

-----------------------------------------------------------------------------
(* The pointer listeners with the positions they store.  A record of the
   active pointer list is [id, input], input the Vector4 (x, y, z, w): the
   position and the displacement of the last move. *)

\* Identifiers of the touches of the screen
PointerTouchIds == {0, 1}

\* Positions of a pointer on the canvas, (x, y) as the listeners compute them
PointerPositions == {<<0, 0>>, <<2, 1>>}

\* event.touches of a "touchcancel": the touches still on the screen
ActiveTouchLists == {<<>>, <<0>>, <<1>>, <<0, 1>>, <<1, 0>>}

\* inputTouches.push({ id, input: new Vector4(x, y, 0, 0) })
PushPointer(touches, id, pos) ==
  Append(touches, [id |-> id, input |-> [x |-> pos[1], y |-> pos[2], z |-> 0, w |-> 0]])

\* input.setZ(x - input.x).setW(y - input.y); input.setX(x).setY(y)
MovePointer(record, pos) ==
  [record EXCEPT !.input = [x |-> pos[1], y |-> pos[2],
                            z |-> pos[1] - record.input.x, w |-> pos[2] - record.input.y]]

\* "mousemove" listener: if (inputTouches.length > 0) moves inputTouches[0]
MouseMoveResult(touches, pos) ==
  IF Len(touches) > 0 THEN [touches EXCEPT ![1] = MovePointer(@, pos)] ELSE touches

\* "touchmove" listener, one changed touch: find by identifier, then move
TouchMoveResult(touches, n, pos) ==
  IF \E k \in DOMAIN touches : touches[k].id = TouchId(n)
  THEN LET first == CHOOSE k \in DOMAIN touches :
                       /\ touches[k].id = TouchId(n)
                       /\ \A l \in 1..(k - 1) : touches[l].id # TouchId(n)
       IN [touches EXCEPT ![first] = MovePointer(@, pos)]
  ELSE touches

\* inputTouches.splice(i, 1)
Splice(touches, i) == SubSeq(touches, 1, i - 1) \o SubSeq(touches, i + 1, Len(touches))

\* "touchcancel" listener, inner loop from j on for the record at i: TRUE when
\* the loop reaches the splice
RECURSIVE CancelSplices(_, _, _, _)
CancelSplices(touches, i, active, j) ==
  IF j > Len(active) THEN FALSE
  ELSE IF touches[i].id = TouchId(active[j]) THEN FALSE
  ELSE IF j = Len(active) THEN TRUE
  ELSE CancelSplices(touches, i, active, j + 1)

\* "touchcancel" listener, outer loop from i on (splice(i--, 1) revisits index i)
RECURSIVE TouchCancelFrom(_, _, _)
TouchCancelFrom(touches, active, i) ==
  IF i > Len(touches) THEN touches
  ELSE IF CancelSplices(touches, i, active, 1)
       THEN TouchCancelFrom(Splice(touches, i), active, i)
       ELSE TouchCancelFrom(touches, active, i + 1)

TouchCancelResult(touches, active) == TouchCancelFrom(touches, active, 1)

\* A pointer handler: only the active pointer list changes
PointerHandler(touches) ==
  /\ inputTouches' = touches
  /\ passLog' = <<>>
  /\ smokeTimeAdvance' = 0
  /\ UNCHANGED <<configuration, measurements, glVars>>
  /\ NoShaderRun

PointerMouseDown ==
  \E pos \in PointerPositions :
    /\ Len(inputTouches) < MaxPointers
    /\ PointerHandler(PushPointer(inputTouches, mouseId, pos))

PointerMouseMove ==
  \E pos \in PointerPositions : PointerHandler(MouseMoveResult(inputTouches, pos))

PointerTouchStart ==
  \E n \in PointerTouchIds : \E pos \in PointerPositions :
    /\ Len(inputTouches) < MaxPointers
    /\ PointerHandler(PushPointer(inputTouches, TouchId(n), pos))

PointerTouchMove ==
  \E n \in PointerTouchIds : \E pos \in PointerPositions :
    PointerHandler(TouchMoveResult(inputTouches, n, pos))

PointerTouchEnd ==
  \E n \in PointerTouchIds : PointerHandler(TouchEndResult(inputTouches, n))

PointerTouchCancel ==
  \E active \in ActiveTouchLists : PointerHandler(TouchCancelResult(inputTouches, active))

NextPointers ==
  \/ PointerMouseDown
  \/ PointerMouseMove
  \/ MouseUp
  \/ PointerTouchStart
  \/ PointerTouchMove
  \/ PointerTouchEnd
  \/ PointerTouchCancel

SpecPointers == PipelineInit /\ [][NextPointers]_vars

-----------------------------------------------------------------------------
(* The "Fluid" folder.  Viscosity and ColorDecay are in units of 0.0001. *)

fluidPresets ==
  [Air |-> [viscosity |-> 1, colorDecay |-> 150],
   Alcohol |-> [viscosity |-> 8, colorDecay |-> 40],
   Water |-> [viscosity |-> 10, colorDecay |-> 50],
   LightOil |-> [viscosity |-> 50, colorDecay |-> 30],
   HeavyOil |-> [viscosity |-> 120, colorDecay |-> 20],
   Honey |-> [viscosity |-> 250, colorDecay |-> 10],
   Molasses |-> [viscosity |-> 400, colorDecay |-> 5],
   Custom |-> [viscosity |-> 10, colorDecay |-> 50]]

\* Values the sliders fluid.add(configuration, ..., 0.0, 0.1, 0.001) are moved to
CoefficientValues == {0, 10, 20, 30, 50, 120, 1000}

\* Mutant: a preset sets the viscosity only.
FluidPresetChangeViscosityOnly(cfg, value) ==
  LET c1 == [cfg EXCEPT !.FluidPreset = value]
  IN IF value # "Custom"
     THEN [c1 EXCEPT !.Viscosity = fluidPresets[value].viscosity]
     ELSE c1

\* The FluidPreset controller sets the property and calls its onChange
FluidPresetChange(cfg, value) ==
  LET c1 == [cfg EXCEPT !.FluidPreset = value]
  IN IF value # "Custom"
     THEN [c1 EXCEPT !.Viscosity = fluidPresets[value].viscosity,
                     !.ColorDecay = fluidPresets[value].colorDecay]
     ELSE c1

\* The Viscosity or ColorDecay controller sets the property and calls its onChange
CoefficientChange(cfg, k, x) == [cfg EXCEPT ![k] = x, !.FluidPreset = "Custom"]

SetFluidPreset ==
  \E value \in DOMAIN fluidPresets :
    /\ configuration' = FluidPresetChange(configuration, value)
    /\ passLog' = <<>>
    /\ smokeTimeAdvance' = 0
    /\ UNCHANGED <<inputTouches, measurements, glVars>>
    /\ NoShaderRun

SetCoefficient ==
  \E k \in {"Viscosity", "ColorDecay"} : \E x \in CoefficientValues :
    /\ configuration' = CoefficientChange(configuration, k, x)
    /\ passLog' = <<>>
    /\ smokeTimeAdvance' = 0
    /\ UNCHANGED <<inputTouches, measurements, glVars>>
    /\ NoShaderRun

NextFluid ==
  \/ SetFluidPreset
  \/ SetCoefficient

SpecFluid == PipelineInit /\ [][NextFluid]_vars

-----------------------------------------------------------------------------
(* The page load.  startup.extensions tells whether the context has both
   OES_texture_half_float and OES_texture_half_float_linear. *)

\* The top-level code of index.ts has not run yet
StartupInit ==
  /\ configuration = InitConfiguration
  /\ GLInit
  /\ GridInit
  /\ startup \in [extensions : BOOLEAN, alerted : {FALSE}, loaded : {FALSE}]

\* The top-level code runs to its end: the extension check, the construction
\* of the targets and passes, and animate(), which renders the first frame
Load ==
  /\ ~startup.loaded
  /\ startup' = [startup EXCEPT !.alerted = ~startup.extensions, !.loaded = TRUE]
  /\ Install(RenderResult(State, configuration, inputTouches, measurements))
  /\ simSteps' = IF configuration.Simulate /\ simSteps < 2 THEN simSteps + 1 ELSE simSteps
  /\ UNCHANGED <<configuration, inputTouches, measurements, measurementFolders, sizeVars, probeValues>>
  /\ NoShaderRun

\* requestAnimationFrame(animate): a later frame
AnimationFrame == startup.loaded /\ Render

\* The listeners and the GUI exist once the top-level code has run
LoadedToggle == startup.loaded /\ ToggleCheckbox
LoadedMouseDown == startup.loaded /\ MouseDown
LoadedMouseUp == startup.loaded /\ MouseUp

NextStartup ==
  \/ Load
  \/ AnimationFrame
  \/ LoadedToggle
  \/ LoadedMouseDown
  \/ LoadedMouseUp

SpecStartup == StartupInit /\ [][NextStartup]_vars

-----------------------------------------------------------------------------
(* The boundary stage and the obstacle mask, cell by cell *)

\* Velocity fields the earlier stages of a step hand to the boundary stage
VelocityFields ==
  { [cell \in Cells |-> <<cell[1] + 1, cell[2] + 2>>],
    [cell \in Cells |-> <<2 * (cell[1] - cell[2]) + 1, -1>>] }

\* Values the sliders of the "Chevron" folder are moved to
ChevronSliders ==
  [ChevronColumns |-> {1, 3}, ChevronRows |-> {2, 8}, ChevronLength |-> {150, 400},
   ChevronWidth |-> {25, 100}, ChevronAngle |-> {30, 45}, ChevronGap |-> {0, 150},
   ChevronSpacingX |-> {100, 130}, ChevronSpacingY |-> {120, 300}]

SetChevron ==
  \E k \in DOMAIN ChevronSliders : \E x \in ChevronSliders[k] :
    /\ configuration' = [configuration EXCEPT ![k] = x]
    /\ passLog' = <<>>
    /\ smokeTimeAdvance' = 0
    /\ UNCHANGED <<inputTouches, measurements, glVars>>
    /\ NoShaderRun

BoundaryCheckboxes == {"Boundaries", "FlowEnabled", "ChevronEnabled"}

ToggleBoundaryCheckbox == \E k \in BoundaryCheckboxes : Toggle(k)

\* render(), "Add velocity boundaries": velocityBoundary over one velocity field
VelocityBoundaryRender ==
  /\ configuration.Boundaries \/ configuration.ChevronEnabled
  /\ \E velocity \in VelocityFields :
       shaderRun' = [pass |-> "velocityBoundary", input |-> velocity,
                     output |-> [cell \in Cells |->
                        BoundaryShader(velocity, BoundaryUniforms(configuration), cell)]]
  /\ UNCHANGED <<pipelineVars, pressureField, divergenceField>>

\* ObstacleMaskPass rendered with the chevron uniforms of the configuration
ObstacleMaskRender ==
  /\ shaderRun' = [pass |-> "obstacleMaskPass",
                   output |-> [cell \in Cells |->
                      ObstacleMaskShader(BoundaryUniforms(configuration), cell)]]
  /\ UNCHANGED <<pipelineVars, pressureField, divergenceField>>

NextBoundary ==
  \/ SetChevron
  \/ ToggleBoundaryCheckbox
  \/ VelocityBoundaryRender
  \/ ObstacleMaskRender

SpecBoundary == PipelineInit /\ [][NextBoundary]_vars

-----------------------------------------------------------------------------
(* The pressure stage, cell by cell *)

\* Divergence fields the divergence stage hands to the pressure stage
DivergenceFields ==
  { [cell \in Cells |-> 1],
    [cell \in Cells |-> cell[1] - cell[2]],
    [cell \in Cells |-> IF cell = <<2, 2>> THEN -4 ELSE 0],
    [cell \in Cells |-> ((cell[1] * cell[2]) % 3) - 1] }

\* Chevron settings of the sliders whose rectangles cover cell centres
JacobiConfigurations ==
  { [InitConfiguration EXCEPT !.ChevronColumns = 1, !.ChevronRows = r,
                              !.ChevronLength = 400, !.ChevronWidth = 100,
                              !.ChevronSpacingY = 300] : r \in {2, 8} }

JacobiInit ==
  /\ configuration \in JacobiConfigurations
  /\ GLInit
  /\ GridInit
  /\ startup = Loaded

RECURSIVE Power(_, _)
Power(b, n) == IF n = 0 THEN 1 ELSE b * Power(b, n - 1)

\* render(), divergence stage: d holds a new divergence field
DivergenceRender ==
  /\ \E divergence \in DivergenceFields : divergenceField' = divergence
  /\ shaderRun' = noRun
  /\ UNCHANGED <<pipelineVars, pressureField>>

\* render(), one turn of the pressure loop: pressurePass reads p and d with the
\* uniforms it holds and writes the other pressure buffer, which becomes p
PressureRender ==
  /\ pressureField.den < Power(BetaDen, MaxJacobiPasses)
  /\ LET output == [num |-> [cell \in Cells |->
                       JacobiShader(pressureField, divergenceField, DefaultImageContent,
                                    uniforms["pressurePass"].useObstacleMask, cell)],
                    den |-> pressureField.den * BetaDen]
     IN /\ pressureField' = output
        /\ shaderRun' = [pass |-> "pressurePass", input |-> pressureField,
                         output |-> output]
  /\ UNCHANGED <<pipelineVars, divergenceField>>

ToggleChevronEnabled == Toggle("ChevronEnabled")

NextJacobi ==
  \/ DivergenceRender
  \/ PressureRender
  \/ ToggleChevronEnabled

SpecJacobi == JacobiInit /\ [][NextJacobi]_vars

-----------------------------------------------------------------------------
(* The divergence stage and the projection stage, cell by cell *)

\* Pressure fields the pressure stage hands to the projection stage
PressureFields ==
  { [num |-> [cell \in Cells |-> cell[1] * cell[1] + cell[2] + 1], den |-> 4],
    [num |-> [cell \in Cells |-> 3 - 2 * cell[1] * cell[2]], den |-> 1] }

\* render(), divergence stage: velocityDivergencePass over one velocity field
VelocityDivergenceRender ==
  /\ \E velocity \in VelocityFields :
       shaderRun' = [pass |-> "velocityDivergencePass", input |-> velocity,
                     output |-> [num |-> [cell \in Cells |->
                        DivergenceShader(velocity, DefaultImageContent,
                           uniforms["velocityDivergencePass"].useObstacleMask, cell)],
                                 den |-> 2]]
  /\ UNCHANGED <<pipelineVars, pressureField, divergenceField>>

\* render(), projection stage: pressureSubstractionPass over one velocity field
\* and one pressure field
PressureSubstractionRender ==
  /\ \E velocity \in VelocityFields : \E pressure \in PressureFields :
       shaderRun' = [pass |-> "pressureSubstractionPass", input |-> velocity,
                     pressure |-> pressure,
                     output |-> [num |-> [cell \in Cells |->
                        GradientSubstractionShader(velocity, pressure, DefaultImageContent,
                           uniforms["pressureSubstractionPass"].useObstacleMask, cell)],
                                 den |-> 2 * pressure.den]]
  /\ UNCHANGED <<pipelineVars, pressureField, divergenceField>>

NextProjection ==
  \/ SetChevron
  \/ ToggleChevronEnabled
  \/ VelocityDivergenceRender
  \/ PressureSubstractionRender

SpecProjection == PipelineInit /\ [][NextProjection]_vars

-----------------------------------------------------------------------------
(* The projection of the first step at the default iteration count, in exact
   arithmetic.  After n pressure passes the pressure of a cell is a numerator
   over 2 * BetaDen^n, too long for one machine integer: a long integer is a
   sequence of BigLimbs limbs, least significant first, of value
   limb[1] + limb[2] * BigBase + ...; in a normalised one every limb but the
   last is in 0..(BigBase - 1) and the last carries the sign.  render() never
   sets useObstacleMask, so the shaders are followed with it false. *)

RECURSIVE BigCarry(_, _, _)
BigCarry(a, k, carry) ==
  IF k = BigLimbs THEN <<a[k] + carry>>
  ELSE <<(a[k] + carry) % BigBase>> \o BigCarry(a, k + 1, (a[k] + carry) \div BigBase)

BigNorm(a) == BigCarry(a, 1, 0)
BigOf(n) == BigNorm([k \in 1..BigLimbs |-> IF k = 1 THEN n ELSE 0])
BigAdd(a, b) == BigNorm([k \in 1..BigLimbs |-> a[k] + b[k]])
BigSub(a, b) == BigNorm([k \in 1..BigLimbs |-> a[k] - b[k]])
BigScale(a, m) == BigNorm([k \in 1..BigLimbs |-> a[k] * m])
BigNegative(a) == a[BigLimbs] < 0
BigAbs(a) == IF BigNegative(a) THEN BigScale(a, -1) ELSE a
BigLess(a, b) == BigNegative(BigSub(a, b))

\* The sum of |field[cell]| over the cells of S, for a field of integers
RECURSIVE SumAbs(_, _)
SumAbs(field, S) ==
  IF S = {} THEN 0
  ELSE LET cell == CHOOSE x \in S : TRUE
       IN abs(field[cell]) + SumAbs(field, S \ {cell})

\* The sum of limb k of |field[cell]| over the cells of S
RECURSIVE SumAbsLimb(_, _, _)
SumAbsLimb(field, k, S) ==
  IF S = {} THEN 0
  ELSE LET cell == CHOOSE x \in S : TRUE
       IN BigAbs(field[cell])[k] + SumAbsLimb(field, k, S \ {cell})

\* The sum of |field[cell]| over the cells of S
BigSumAbs(field, S) == BigNorm([k \in 1..BigLimbs |-> SumAbsLimb(field, k, S)])

\* Velocity fields at the start of the projection: a push at one cell, a
\* uniform flow, a shear and an irregular field
ProjectionFields ==
  { [cell \in Cells |-> IF cell = <<2, 2>> THEN <<3, 0>> ELSE <<0, 0>>],
    [cell \in Cells |-> <<1, 0>>],
    [cell \in Cells |-> <<cell[1] + 1, cell[2] + 2>>],
    [cell \in Cells |-> <<(cell[1] * cell[2]) % 3, (cell[1] + 2 * cell[2]) % 3>>] }

\* JacobiIterationsPass fragment shader on long integers: the numerator written
\* to a cell, over 2 * scale * BetaDen; previousIteration holds numerators over
\* 2 * scale and divergence numerators over 2
JacobiShaderLong(previousIteration, scale, divergence, cell) ==
  LET i == cell[1]
      j == cell[2]
      x0 == texture2D(previousIteration, i - 1, j)
      x1 == texture2D(previousIteration, i + 1, j)
      y0 == texture2D(previousIteration, i, j - 1)
      y1 == texture2D(previousIteration, i, j + 1)
      dv == texture2D(divergence, i, j)
  IN BigScale(BigAdd(BigAdd(x0, x1), BigAdd(BigAdd(y0, y1), BigScale(scale, alpha * dv))),
              BetaNum)

\* GradientSubstractionPass fragment shader on long integers: the numerators
\* written to a cell, over 4 * scale; pressure holds numerators over 2 * scale
GradientSubstractionShaderLong(velocity, pressure, scale, cell) ==
  LET i == cell[1]
      j == cell[2]
      x0 == texture2D(pressure, i - 1, j)
      x1 == texture2D(pressure, i + 1, j)
      y0 == texture2D(pressure, i, j - 1)
      y1 == texture2D(pressure, i, j + 1)
      vel == texture2D(velocity, i, j)
  IN <<BigSub(BigScale(scale, 4 * vel[1]), BigSub(x1, x0)),
       BigSub(BigScale(scale, 4 * vel[2]), BigSub(y1, y0))>>

\* DivergencePass fragment shader on long integers: the numerator written to a
\* cell, over twice the denominator of the velocity
DivergenceShaderLong(velocity, cell) ==
  LET i == cell[1]
      j == cell[2]
      x0 == texture2D(velocity, i - 1, j)[1]
      x1 == texture2D(velocity, i + 1, j)[1]
      y0 == texture2D(velocity, i, j - 1)[2]
      y1 == texture2D(velocity, i, j + 1)[2]
  IN BigAdd(BigSub(x1, x0), BigSub(y1, y0))

\* One turn of the pressure loop
PressurePassLong(pressure, divergence) ==
  [num |-> [cell \in Cells |-> JacobiShaderLong(pressure.num, pressure.scale, divergence, cell)],
   scale |-> BigScale(pressure.scale, BetaDen),
   passes |-> pressure.passes + 1]

\* The velocity after the gradient subtraction, numerators over 4 * pressure.scale
ProjectedVelocity(velocity, pressure) ==
  [cell \in Cells |-> GradientSubstractionShaderLong(velocity, pressure.num, pressure.scale, cell)]

\* The sum over the cells of |divergence| of the projected velocity, as a
\* numerator over 8 * pressure.scale
DivergenceAfter(velocity, pressure) ==
  LET projected == ProjectedVelocity(velocity, pressure)
  IN BigSumAbs([cell \in Cells |-> DivergenceShaderLong(projected, cell)], Cells)

\* render(), divergence stage of the first step: p is still blank
ProjectionDivergenceRender ==
  /\ pressureField = blankPressure
  /\ \E velocity \in ProjectionFields :
       /\ divergenceField' = [cell \in Cells |->
             DivergenceShader(velocity, DefaultImageContent,
                              uniforms["velocityDivergencePass"].useObstacleMask, cell)]
       /\ shaderRun' = [pass |-> "velocityDivergencePass", input |-> velocity]
  /\ pressureField' = [num |-> [cell \in Cells |-> BigOf(0)], scale |-> BigOf(1), passes |-> 0]
  /\ UNCHANGED pipelineVars

\* render(), one turn of the pressure loop
ProjectionPressureRender ==
  /\ shaderRun.pass = "velocityDivergencePass"
  /\ pressureField # blankPressure
  /\ pressureField.passes < MaxProjectionPasses
  /\ pressureField' = PressurePassLong(pressureField, divergenceField)
  /\ UNCHANGED <<pipelineVars, divergenceField, shaderRun>>

\* render(), gradient subtraction after the loop
ProjectionSubstractionRender ==
  /\ shaderRun.pass = "velocityDivergencePass"
  /\ pressureField # blankPressure
  /\ pressureField.passes > 0
  /\ shaderRun' = [pass |-> "pressureSubstractionPass", input |-> shaderRun.input,
                   output |-> ProjectedVelocity(shaderRun.input, pressureField)]
  /\ UNCHANGED <<pipelineVars, pressureField, divergenceField>>

NextProjectionStage ==
  \/ ProjectionDivergenceRender
  \/ ProjectionPressureRender
  \/ ProjectionSubstractionRender

SpecProjectionStage == PipelineInit /\ [][NextProjectionStage]_vars

-----------------------------------------------------------------------------
(* The measurement probes, value by value.  Field values and probe values are
   in thousandths; sample coordinates are integers in units of
   1/(16000 GridW); an encoded or decoded value is an exact fraction. *)

VALUE_SCALE == 10

\* 1.0 in coordinate units
OneCoord == 16000 * GridW

\* Math.round of num / den, den > 0
MathRound(num, den) == (2 * num + den) \div (2 * den)

\* Contents of the pressure and velocity textures as functions of the sample
\* position: the value at (x, y) is ((a x + b y) mod m) - c
SampledFields ==
  { [pressure |-> [a |-> 7, b |-> 3, m |-> 9001, c |-> 4500],
     velX |-> [a |-> 1, b |-> 11, m |-> 8001, c |-> 4000],
     velY |-> [a |-> 5, b |-> 1, m |-> 6001, c |-> 3000]],
    [pressure |-> [a |-> 3, b |-> 1, m |-> 14001, c |-> 7000],
     velX |-> [a |-> 1, b |-> 1, m |-> 3, c |-> 1],
     velY |-> [a |-> 1, b |-> 7, m |-> 12001, c |-> 6000]] }

Channels == {"pressure", "velX", "velY"}

\* texture2D(pressureTexture, samplePosition) and texture2D(velocityTexture, ...)
TextureValue(field, channel, x, y) ==
  ((field[channel].a * x + field[channel].b * y) % field[channel].m) - field[channel].c

\* Mutant: the offset of the encoding is left out.
MeasurementShaderNoOffset(value, valueScale) ==
  clamp(2 * value, 0, 2000 * valueScale)

\* MeasurementPass fragment shader: clamp(value / valueScale + 0.5, 0.0, 1.0),
\* as a numerator over the denominator 2000 * valueScale
MeasurementShader(value, valueScale) ==
  clamp(2 * value + 1000 * valueScale, 0, 2000 * valueScale)

\* The byte an UnsignedByteType target keeps of an output in [0, 1]
ToUnsignedByte(num, den) == MathRound(255 * num, den)

\* ((measurementBuffer[k] / 255) - 0.5) * VALUE_SCALE, as a numerator over 510
Decode(byte) == (2 * byte - 255) * VALUE_SCALE

\* sampleAtPosition(x, y): per channel the value read, the byte and the decoded value
sampleAtPosition(field, x, y) ==
  LET clampedX == clamp(x, 0, OneCoord)
      clampedY == clamp(y, 0, OneCoord)
  IN [position |-> <<clampedX, clampedY>>,
      valueScale |-> VALUE_SCALE,
      channel |-> [ch \in Channels |->
         LET value == TextureValue(field, ch, clampedX, clampedY)
             byte == ToUnsignedByte(MeasurementShader(value, VALUE_SCALE), 2000 * VALUE_SCALE)
         IN [value |-> value, byte |-> byte, decoded |-> Decode(byte)]]]

\* Math.round(Math.sqrt(x * x + y * y) * 1000) / 1000 of two values in thousandths
VelocityMag(x, y) ==
  CHOOSE mag \in 0..(abs(x) + abs(y) + 1) :
    /\ (2 * mag - 1) * (2 * mag - 1) <= 4 * (x * x + y * y)
    /\ 4 * (x * x + y * y) < (2 * mag + 1) * (2 * mag + 1)

\* Number.toFixed(3) of a value in thousandths: sign, digits before and after the point
toFixed3(value) ==
  [negative |-> value < 0, whole |-> abs(value) \div 1000, decimals |-> abs(value) % 1000]

\* Mutant: the samples of a line probe start at y = 0.
LineSamplesFromZero(field, m) ==
  LET normalizedX == m.x * 16 * GridH
  IN [i \in 0..(numSamples - 1) |->
        sampleAtPosition(field, normalizedX, ((2 * i) * 1000 * GridW * 16) \div (2 * numSamples))]

\* updateMeasurements, line probe: the samples at y = (i + 0.5) / numSamples
LineSamples(field, m) ==
  LET normalizedX == m.x * 16 * GridH
  IN [i \in 0..(numSamples - 1) |->
        sampleAtPosition(field, normalizedX, ((2 * i + 1) * 1000 * GridW * 16) \div (2 * numSamples))]

\* updateMeasurements, point probe: the one sample
PointSamples(field, m) ==
  [i \in {0} |-> sampleAtPosition(field, m.x * 16 * GridH, m.y * 16 * GridW)]

RECURSIVE SumDecoded(_, _, _)
SumDecoded(samples, ch, n) ==
  IF n = 0 THEN 0 ELSE samples[n - 1].channel[ch].decoded + SumDecoded(samples, ch, n - 1)

\* updateMeasurements: what one enabled probe is set to from its samples
ProbeUpdate(samples) ==
  LET n == Cardinality(DOMAIN samples)
      rounded == [ch \in Channels |-> MathRound(SumDecoded(samples, ch, n) * 1000, 510 * n)]
      mag == VelocityMag(rounded["velX"], rounded["velY"])
  IN [updated |-> TRUE, samples |-> samples,
      pressure |-> rounded["pressure"], velocityX |-> rounded["velX"],
      velocityY |-> rounded["velY"], velocityMag |-> mag,
      pressureDisplay |-> toFixed3(rounded["pressure"]),
      velocityDisplay |-> toFixed3(mag)]

\* A probe updateMeasurements leaves as it is
notUpdated == [updated |-> FALSE]

\* updateMeasurements over the probes, with the textures p and v of the frame
updateMeasurements(pTexture, vTexture, ms, field) ==
  [i \in DOMAIN ms |->
     IF pTexture = undefined \/ vTexture = undefined THEN notUpdated
     ELSE IF ~ms[i].enabled THEN notUpdated
     ELSE IF ms[i].type = "line" THEN ProbeUpdate(LineSamples(field, ms[i]))
     ELSE ProbeUpdate(PointSamples(field, ms[i]))]

\* One frame, with the values updateMeasurements() stores on the probes
MeasuredRender ==
  /\ \E field \in SampledFields :
       LET st == RenderResult(State, configuration, inputTouches, measurements)
       IN /\ Install(st)
          /\ shaderRun' = [pass |-> "measurementPass", field |-> field,
                           probes |-> updateMeasurements(st.p, st.v, measurements, field)]
  /\ simSteps' = IF configuration.Simulate /\ simSteps < 2 THEN simSteps + 1 ELSE simSteps
  /\ UNCHANGED <<configuration, inputTouches, measurements, measurementFolders, pressureField, divergenceField,
                 sizeVars, startup, probeValues>>

\* measurementActions.addPoint
AddPoint ==
  /\ Len(measurements) < MaxProbes
  /\ measurements' = Append(measurements,
        [type |-> "point", x |-> 500, y |-> 500, enabled |-> TRUE])
  /\ measurementFolders' = rebuildMeasurementGUI(measurements')
  /\ passLog' = <<>>
  /\ smokeTimeAdvance' = 0
  /\ UNCHANGED <<configuration, inputTouches, stepVars>>
  /\ NoShaderRun

\* folder.add(m, "enabled")
ToggleProbeEnabled ==
  \E i \in DOMAIN measurements :
    /\ measurements' = [measurements EXCEPT ![i].enabled = ~@]
    /\ passLog' = <<>>
    /\ smokeTimeAdvance' = 0
    /\ UNCHANGED <<configuration, inputTouches, glVars>>
    /\ NoShaderRun

\* Y positions the slider of a point probe is moved to
ProbeYPositions == {0, 370}

\* folder.add(m, "y", 0, 1, 0.01)
SetProbeY ==
  \E i \in DOMAIN measurements : \E y \in ProbeYPositions :
    /\ measurements[i].type = "point"
    /\ measurements' = [measurements EXCEPT ![i].y = y]
    /\ passLog' = <<>>
    /\ smokeTimeAdvance' = 0
    /\ UNCHANGED <<configuration, inputTouches, glVars>>
    /\ NoShaderRun

ToggleSimulate == Toggle("Simulate")

NextMeasurement ==
  \/ MeasuredRender
  \/ Reset
  \/ ToggleSimulate
  \/ AddPoint
  \/ ToggleProbeEnabled
  \/ SetProbeY

SpecMeasurement == PipelineInit /\ [][NextMeasurement]_vars

-----------------------------------------------------------------------------
(* The buttons of the "Measurements" folder: Add Line, Add Point and the
   Remove button of the folder of each probe *)

\* Mutant: Add Line pushes a probe whatever the length of the list.
addLineUnguarded(ms) ==
  Append(ms, [type |-> "line", x |-> 500, y |-> 500, enabled |-> TRUE])

\* measurementActions.addLine, the list it leaves
addLine(ms) ==
  IF Len(ms) < MAX_MEASUREMENTS
  THEN Append(ms, [type |-> "line", x |-> 500, y |-> 500, enabled |-> TRUE])
  ELSE ms

\* measurementActions.addPoint, the list it leaves
addPoint(ms) ==
  IF Len(ms) < MAX_MEASUREMENTS
  THEN Append(ms, [type |-> "point", x |-> 500, y |-> 500, enabled |-> TRUE])
  ELSE ms

\* removeConfig.remove of a folder: measurements.splice(i, 1), i from 0; past
\* the end of the list splice removes nothing
remove(ms, i) ==
  SubSeq(ms, 1, i) \o SubSeq(ms, i + 2, Len(ms))

\* A button of the "Measurements" folder; an add or a remove ends with
\* rebuildMeasurementGUI()
MeasurementButton(ms) ==
  /\ measurements' = ms
  /\ measurementFolders' = rebuildMeasurementGUI(ms)
  /\ passLog' = <<>>
  /\ smokeTimeAdvance' = 0
  /\ UNCHANGED <<configuration, inputTouches, stepVars>>
  /\ NoShaderRun

ClickAddLine == MeasurementButton(addLine(measurements))

ClickAddPoint == MeasurementButton(addPoint(measurements))

ClickRemove ==
  \E k \in DOMAIN measurementFolders :
    MeasurementButton(remove(measurements, measurementFolders[k].i))

NextProbes ==
  \/ ClickAddLine
  \/ ClickAddPoint
  \/ ClickRemove

SpecProbes == PipelineInit /\ [][NextProbes]_vars

-----------------------------------------------------------------------------
(* A readback that fails.  sampleAtPosition does not look at any result of
   renderer.readRenderTargetPixels: the call either throws, and the exception
   leaves updateMeasurements and render(), or it returns without writing
   measurementBuffer, and the bytes of the sample before are decoded. *)

ReadbackOutcomes == {"throws", "stale"}

\* No readback fails, or the readback of one sample of one probe does: the
\* first sample of the probe or its last
ReadbackFailures ==
  {[probe |-> 0, sample |-> 0, outcome |-> "ok"]} \cup
  [probe : 1..MaxProbes, sample : {0, numSamples - 1}, outcome : ReadbackOutcomes]

\* The content of the pressure and velocity textures in the frames followed
ReadbackFields ==
  {field \in SampledFields : field.pressure.a = 7}

\* measurementBuffer after a sample
BufferOf(sample) == [ch \in Channels |-> sample.channel[ch].byte]

\* sampleAtPosition when the readback left measurementBuffer as it was
StaleSample(buffer) ==
  [channel |-> [ch \in Channels |-> [byte |-> buffer[ch], decoded |-> Decode(buffer[ch])]]]

\* The samples updateMeasurements takes for probe m
ProbeSamplesOf(field, m) ==
  IF m.type = "line" THEN LineSamples(field, m) ELSE PointSamples(field, m)

\* The samples of probe m when the readback of sample j is stale
SamplesWithStale(field, m, buffer, j) ==
  LET good == ProbeSamplesOf(field, m)
  IN [i \in DOMAIN good |->
        IF i # j THEN good[i]
        ELSE StaleSample(IF i = 0 THEN buffer ELSE BufferOf(good[i - 1]))]

\* The fields updateMeasurements assigns on a probe
ValuesOf(u) ==
  [pressure |-> u.pressure, velocityX |-> u.velocityX, velocityY |-> u.velocityY,
   velocityMag |-> u.velocityMag, pressureDisplay |-> u.pressureDisplay,
   velocityDisplay |-> u.velocityDisplay]

\* The loop of updateMeasurements from probe i on; pv holds the values of the
\* probes and measurementBuffer
RECURSIVE updateProbes(_, _, _, _, _)
updateProbes(ms, field, failure, pv, i) ==
  IF i > Len(ms) THEN pv
  ELSE IF ~ms[i].enabled THEN updateProbes(ms, field, failure, pv, i + 1)
  ELSE LET good == ProbeSamplesOf(field, ms[i])
           fails == failure.probe = i /\ failure.sample \in DOMAIN good
       IN IF fails /\ failure.outcome = "throws" THEN pv
          ELSE LET samples == IF fails
                              THEN SamplesWithStale(field, ms[i], pv.measurementBuffer,
                                                    failure.sample)
                              ELSE good
               IN updateProbes(ms, field, failure,
                     [values |-> [pv.values EXCEPT ![i] = ValuesOf(ProbeUpdate(samples))],
                      measurementBuffer |-> BufferOf(samples[Cardinality(DOMAIN samples) - 1])],
                     i + 1)

\* updateMeasurements() with the values it stores: if (!p || !v) return
updateMeasurementsStoring(pTexture, vTexture, ms, field, failure, pv) ==
  IF pTexture = undefined \/ vTexture = undefined THEN pv
  ELSE updateProbes(ms, field, failure, pv, 1)

\* Whether the readback named by failure is one the frame makes
ReadbackMade(pTexture, vTexture, ms, failure) ==
  /\ failure.probe \in DOMAIN ms
  /\ ms[failure.probe].enabled
  /\ ms[failure.probe].type = "point" => failure.sample = 0
  /\ pTexture # undefined /\ vTexture # undefined

\* One frame in which at most one readback fails
ReadbackRender ==
  /\ LET st == RenderResult(State, configuration, inputTouches, measurements)
     IN /\ Install(st)
        /\ \E field \in ReadbackFields : \E failure \in ReadbackFailures :
             /\ failure.outcome # "ok" => ReadbackMade(st.p, st.v, measurements, failure)
             /\ probeValues' = updateMeasurementsStoring(st.p, st.v, measurements, field,
                                                         failure, probeValues)
             /\ shaderRun' = [pass |-> "readback", field |-> field, failure |-> failure,
                              before |-> probeValues.values]
  /\ simSteps' = IF configuration.Simulate /\ simSteps < 2 THEN simSteps + 1 ELSE simSteps
  /\ UNCHANGED <<configuration, inputTouches, measurements, measurementFolders, pressureField, divergenceField,
                 sizeVars, startup>>

NextReadback ==
  \/ ReadbackRender
  \/ ToggleSimulate
  \/ ToggleProbeEnabled

SpecReadback == PipelineInit /\ [][NextReadback]_vars

-----------------------------------------------------------------------------
(* Resolution changes *)

\* RenderTarget.resize(resolution): every buffer of the target takes the size
RenderTargetResize(sizes, rt, size) == [sizes EXCEPT ![rt] = size]

\* Mutant: the divergence target is not resized.
ResizeTargetsButDivergence(sizes, size) ==
  LET s1 == RenderTargetResize(sizes, "velocityRT", size)
      s2 == RenderTargetResize(s1, "pressureRT", size)
  IN RenderTargetResize(s2, "colorRT", size)

\* velocityRT.resize(resolution); divergenceRT.resize(resolution);
\* pressureRT.resize(resolution); colorRT.resize(resolution)
ResizeTargets(sizes, size) ==
  LET s1 == RenderTargetResize(sizes, "velocityRT", size)
      s2 == RenderTargetResize(s1, "divergenceRT", size)
      s3 == RenderTargetResize(s2, "pressureRT", size)
  IN RenderTargetResize(s3, "colorRT", size)

\* The window takes a new size and the "resize" listener runs
WindowResize ==
  \E w \in WindowWidths : \E h \in WindowHeights :
    /\ window' = [innerWidth |-> w, innerHeight |-> h]
    /\ resolution' = Resolution(configuration.Scale, window')
    /\ rtResolution' = ResizeTargets(rtResolution, resolution')
    /\ passLog' = <<>>
    /\ smokeTimeAdvance' = 0
    /\ UNCHANGED <<configuration, inputTouches, measurements, measurementFolders, v, c, d, p, emitterPositions,
                   rtIndex, renderTarget, uniforms, bufferContent, simSteps, startup,
                   probeValues>>
    /\ NoShaderRun

\* Values of the slider sim.add(configuration, "Scale", 0.1, 2.0, 0.1), in tenths
ScaleValues == 1..20

\* The Scale slider is set and its onFinishChange handler runs
SetScale ==
  \E value \in ScaleValues :
    /\ configuration' = [configuration EXCEPT !.Scale = value]
    /\ resolution' = Resolution(value, window)
    /\ rtResolution' = ResizeTargets(rtResolution, resolution')
    /\ passLog' = <<>>
    /\ smokeTimeAdvance' = 0
    /\ UNCHANGED <<inputTouches, measurements, measurementFolders, window, v, c, d, p, emitterPositions,
                   rtIndex, renderTarget, uniforms, bufferContent, simSteps, startup,
                   probeValues>>
    /\ NoShaderRun

NextResize ==
  \/ WindowResize
  \/ SetScale

SpecResize == PipelineInit /\ [][NextResize]_vars

-----------------------------------------------------------------------------
(* The smoke emitter stage, cell by cell on a SmokeGridW x SmokeGridH grid.
   Dye, contributions, noise, radius and intensity are in thousandths; an
   emitter is <<x, y>> in thousandths of aspect-scaled uv space.  Distances
   are integers in units of 1/(400 SmokeGridH), in which the centre of cell
   <<i, j>> is at ((2i+1) 200, (2j+1) 200) of aspect-scaled uv space. *)

SmokeCells == (0..(SmokeGridW - 1)) \X (0..(SmokeGridH - 1))

\* x and y of the four entries of emitterPositions
emitterXY == [i \in 0..3 |-> IF i = 0 THEN <<50, 250>>
                             ELSE IF i = 2 THEN <<50, 750>> ELSE <<50, 500>>]

\* Thousandths of uv space in distance units
ToDistance(t) == (t * 2 * SmokeGridH) \div 5

\* smoothstep(edge0, 0.0, x) is called with edge0 > edge1, for which GLSL
\* leaves the result undefined: the Hermite polynomial of the clamped
\* (x - edge0) / (0 - edge0), or one of the two end values
SmoothstepOutcomes == {"hermite", "zero", "one"}

\* smoothstep(emitterRadius, 0.0, dist), dist given by its square
smoothstep(edge0, distSquared, outcome) ==
  CASE outcome = "zero" -> 0
    [] outcome = "one" -> 1000
    [] OTHER ->
         IF distSquared >= edge0 * edge0 THEN 0
         ELSE LET dist == CHOOSE n \in 0..edge0 :
                            n * n <= distSquared /\ distSquared < (n + 1) * (n + 1)
                  t == ((edge0 - dist) * 1000) \div edge0
              IN (t * t * (3000 - 2 * t)) \div 1000000

\* Mutant: the enabled flag of the emitter is not looked at.
emitterContributionAlwaysOn(cell, emitter, emitterRadius, noise, outcome) ==
  LET dx == (2 * cell[1] + 1) * 200 - ToDistance(emitter.x)
      dy == (2 * cell[2] + 1) * 200 - ToDistance(emitter.y)
      contribution == smoothstep(ToDistance(emitterRadius), dx * dx + dy * dy, outcome)
  IN (contribution * noise) \div 1000

\* emitterContribution(uv, emitter) of the smoke shader; noise is
\* random(uv + time * 0.1) * 0.3 + 0.7 at the cell
emitterContribution(cell, emitter, emitterRadius, noise, outcome) ==
  IF emitter.z = 0 THEN 0
  ELSE LET dx == (2 * cell[1] + 1) * 200 - ToDistance(emitter.x)
           dy == (2 * cell[2] + 1) * 200 - ToDistance(emitter.y)
           contribution == smoothstep(ToDistance(emitterRadius), dx * dx + dy * dy, outcome)
       IN (contribution * noise) \div 1000

\* SmokeEmitterPass fragment shader: the contribution of each emitter and the
\* dye written, with emitterColor = (1, 1, 1)
SmokeEmitterShader(colorBuffer, emitters, emitterRadius, emitterIntensity, noise, outcome) ==
  LET contribution ==
        [k \in 0..3 |-> [cell \in SmokeCells |->
           emitterContribution(cell, emitters[k], emitterRadius, noise[cell], outcome)]]
  IN [contribution |-> contribution,
      color |-> [cell \in SmokeCells |->
         colorBuffer[cell]
           + ((contribution[0][cell] + contribution[1][cell] + contribution[2][cell]
               + contribution[3][cell]) * emitterIntensity) \div 1000]]

\* Dye the colour advection hands to the emitter stage
DyeFields ==
  { [cell \in SmokeCells |-> 0],
    [cell \in SmokeCells |-> 100 * cell[1] + cell[2]] }

\* Values of random(...) * 0.3 + 0.7 over the grid
NoiseFields ==
  { [cell \in SmokeCells |-> 700],
    [cell \in SmokeCells |-> 700 + ((37 * cell[1] + 101 * cell[2]) % 300)] }

\* Values the sliders of the "Smoke" folder are moved to
SmokeSliders ==
  [SmokeEmitters |-> 1..4, SmokeRadius |-> {15, 50}, SmokeIntensity |-> {400, 1000}]

SetSmoke ==
  \E k \in DOMAIN SmokeSliders : \E x \in SmokeSliders[k] :
    /\ configuration' = [configuration EXCEPT ![k] = x]
    /\ passLog' = <<>>
    /\ smokeTimeAdvance' = 0
    /\ UNCHANGED <<inputTouches, measurements, glVars>>
    /\ NoShaderRun

ToggleSmokeEnabled == Toggle("SmokeEnabled")

\* render(), "Add smoke/dye from emitters": the enabled flags are set from
\* SmokeEmitters and the smoke pass runs over one dye field
SmokeEmitterRender ==
  /\ configuration.Simulate /\ configuration.SmokeEnabled
  /\ emitterPositions' = [i \in 0..3 |-> IF i < configuration.SmokeEmitters THEN 1 ELSE 0]
  /\ \E colorBuffer \in DyeFields : \E noise \in NoiseFields :
     \E outcome \in SmoothstepOutcomes :
       LET emitters == [k \in 0..3 |->
                          [x |-> emitterXY[k][1], y |-> emitterXY[k][2],
                           z |-> emitterPositions'[k]]]
       IN shaderRun' =
            [pass |-> "smokeEmitterPass", input |-> colorBuffer, emitters |-> emitters,
             outcome |-> outcome,
             output |-> SmokeEmitterShader(colorBuffer, emitters, configuration.SmokeRadius,
                                           configuration.SmokeIntensity, noise, outcome)]
  /\ smokeTimeAdvance' = 1
  /\ passLog' = <<>>
  /\ UNCHANGED <<configuration, inputTouches, measurements, measurementFolders, v, c, d, p, rtIndex,
                 renderTarget, uniforms, bufferContent, simSteps, sizeVars, startup, probeValues,
                 pressureField, divergenceField>>

NextSmoke ==
  \/ SetSmoke
  \/ ToggleSmokeEnabled
  \/ SmokeEmitterRender

SpecSmoke == PipelineInit /\ [][NextSmoke]_vars

-----------------------------------------------------------------------------
(* Properties of the frame loop *)

LogIndices == DOMAIN passLog

PassesOf(pass) == {i \in LogIndices : passLog[i].pass = pass}

HasPass(pass) == PassesOf(pass) # {}

SetMax(S) == CHOOSE x \in S : \A y \in S : y <= x

SetMin(S) == CHOOSE x \in S : \A y \in S : x <= y

ReadOf(entry, k) == CHOOSE r \in entry.reads : r.uniform = k

\* a simulated step has been logged
StepLogged == configuration.Simulate /\ passLog # <<>>

StageRank ==
  [velocityAdvectionPass |-> 1, touchForceAdditionPass |-> 2, touchColorAdditionPass |-> 3,
   flowSourcePass |-> 4, velocityBoundary |-> 5, velocityDivergencePass |-> 6,
   pressurePass |-> 7, pressureSubstractionPass |-> 8, colorAdvectionPass |-> 9,
   smokeEmitterPass |-> 10, compositionPass |-> 11, measurementPass |-> 12]

\* the field a sampler uniform of a pass stands for
SamplerField(pass, k) ==
  CASE k \in {"velocity", "velocityTexture"} -> "velocity"
    [] k \in {"pressure", "pressureTexture", "previousIteration"} -> "pressure"
    [] k = "divergence" -> "divergence"
    [] k \in {"color"} -> "dye"
    [] k = "colorBuffer" /\ pass = "smokeEmitterPass" -> "dye"
    [] k = "colorBuffer" /\ pass = "compositionPass" ->
         (CASE configuration.Visualize = "Color" -> "dye"
            [] configuration.Visualize = "Velocity" -> "velocity"
            [] configuration.Visualize = "Divergence" -> "divergence"
            [] configuration.Visualize = "Pressure" -> "pressure")
    [] k = "inputTexture" /\ pass = "velocityAdvectionPass" -> "velocity"
    [] k = "inputTexture" /\ pass = "colorAdvectionPass" -> "dye"

EarlierWritersOf(i, field) == {j \in 1..(i - 1) : FieldOf(passLog[j].target) = field}

StagesInOrder ==
  \A i, j \in LogIndices :
    i < j => \/ StageRank[passLog[i].pass] < StageRank[passLog[j].pass]
             \/ /\ passLog[i].pass = passLog[j].pass
                /\ passLog[i].pass \in {"pressurePass", "measurementPass"}

MandatoryStagesRun ==
  StepLogged =>
    \A pass \in {"velocityAdvectionPass", "velocityDivergencePass", "pressurePass",
                 "pressureSubstractionPass", "colorAdvectionPass", "compositionPass",
                 "measurementPass"} : HasPass(pass)

ReadsLatestWrite ==
  \A i \in LogIndices : \A r \in passLog[i].reads :
    LET W == EarlierWritersOf(i, SamplerField(passLog[i].pass, r.uniform))
    IN W # {} => r.texture = passLog[SetMax(W)].target

\* C1: in every simulated step the stages that run do so in the fixed order
\* advection, force, colour, flow, boundary, divergence, Jacobi, projection,
\* dye advection, smoke, visualization, measurement, and every pass reads the
\* output of the latest earlier pass of the step that wrote the same field.
C1_FixedOrder ==
  StepLogged => StagesInOrder /\ MandatoryStagesRun /\ ReadsLatestWrite

\* a step in which every optional stage ran
C1_Witness ==
  /\ StepLogged
  /\ \A pass \in DOMAIN StageRank : HasPass(pass)

\* C2: no render pass reads the texture it is rendering into.
C2_NoAliasing ==
  \A i \in LogIndices : \A r \in passLog[i].reads : r.texture # passLog[i].target

\* C3: a simulated step runs exactly configuration.Iterations Jacobi passes,
\* each one after the first reading the output of the one before it.
C3_ExactIterations ==
  StepLogged =>
    /\ Cardinality(PassesOf("pressurePass")) = configuration.Iterations
    /\ \A i \in PassesOf("pressurePass") :
         i - 1 \in PassesOf("pressurePass") =>
           ReadOf(passLog[i], "previousIteration").texture = passLog[i - 1].target

\* a step run with an iteration count other than the default one
C3_Witness ==
  /\ StepLogged
  /\ configuration.Iterations = MinIterations + 1
  /\ Cardinality(PassesOf("pressurePass")) = MinIterations + 1

FirstJacobi == passLog[SetMin(PassesOf("pressurePass"))]

\* C6: from the second simulated step on, the first Jacobi pass of a step
\* reads the buffer that the last Jacobi pass of the previous step wrote,
\* also when Reset was invoked in between.
C6_WarmStart ==
  (StepLogged /\ simSteps = 2) =>
    LET r == ReadOf(FirstJacobi, "previousIteration")
    IN /\ FieldOf(r.texture) = "pressure"
       /\ r.tag.pass = "pressurePass"
       /\ r.tag.last
       /\ r.tag.age = 1

\* the first Jacobi pass of a step that follows a Reset
C6_Witness ==
  /\ StepLogged /\ simSteps = 2
  /\ ReadOf(passLog[1], "inputTexture").texture = velocityInitTexture
  /\ ReadOf(FirstJacobi, "previousIteration").tag.last

-----------------------------------------------------------------------------
(* Properties of the pressure stage, cell by cell *)

PressureRan == shaderRun.pass = "pressurePass"

\* Cells whose four neighbours are cells of the grid
InteriorCells ==
  {cell \in Cells : /\ cell[1] > 0 /\ cell[1] < GridW - 1
                    /\ cell[2] > 0 /\ cell[2] < GridH - 1}

\* Cells the configured chevrons cover
ObstacleCell(cell) ==
  ObstacleMaskShader(BoundaryUniforms(configuration), cell) = 1

Left(cell) == <<cell[1] - 1, cell[2]>>
Right(cell) == <<cell[1] + 1, cell[2]>>
Down(cell) == <<cell[1], cell[2] - 1>>
Up(cell) == <<cell[1], cell[2] + 1>>

\* pl + pr + pd + pu + alpha * div of the previous iterate, times its denominator
NeighbourSum(cell) ==
  shaderRun.input.num[Left(cell)] + shaderRun.input.num[Right(cell)]
  + shaderRun.input.num[Down(cell)] + shaderRun.input.num[Up(cell)]
  + alpha * divergenceField[cell] * shaderRun.input.den

\* C4 as stated: after a Jacobi pass every cell with four neighbours holds
\* (pl + pr + pd + pu + alpha * div) / beta of the previous iterate.
C4_DividedByBeta ==
  PressureRan =>
    \A cell \in InteriorCells :
      shaderRun.output.num[cell] * shaderRun.input.den * BetaNum
        = NeighbourSum(cell) * BetaDen * shaderRun.output.den

\* C4 amended: after a Jacobi pass every cell with four neighbours holds
\* (pl + pr + pd + pu + alpha * div) * beta of the previous iterate, that is a
\* quarter of the sum, with alpha = -1 and beta = 0.25.
C4_TimesBeta ==
  PressureRan =>
    /\ alpha = -1 /\ 4 * BetaNum = BetaDen
    /\ \A cell \in InteriorCells :
         shaderRun.output.num[cell] * shaderRun.input.den * BetaDen
           = NeighbourSum(cell) * BetaNum * shaderRun.output.den

\* A pass over a previous iterate that is not blank, with a divergence, whose
\* output at a cell with four neighbours is not zero
C4_Witness ==
  /\ PressureRan
  /\ shaderRun.input.den > 1
  /\ \E cell \in InteriorCells :
       /\ ~ObstacleCell(cell)
       /\ divergenceField[cell] # 0
       /\ shaderRun.input.num[Left(cell)] # shaderRun.input.num[cell]
       /\ shaderRun.output.num[cell] # 0

\* The neighbour of C5: the centre where the neighbour is outside the grid or an
\* obstacle, the previous iterate elsewhere
C5_Neighbour(cell, other) ==
  IF other \notin Cells \/ ObstacleCell(other)
  THEN shaderRun.input.num[cell] ELSE shaderRun.input.num[other]

\* C5 as stated: in a Jacobi pass with chevrons enabled an obstacle cell gets
\* pressure 0, a cell of the right edge gets pressure 0, and every other cell
\* the Jacobi value with edge and obstacle neighbours replaced by its centre.
C5_ObstacleAwarePressure ==
  (PressureRan /\ configuration.ChevronEnabled) =>
    \A cell \in Cells :
      IF ObstacleCell(cell) \/ cell[1] = GridW - 1
      THEN shaderRun.output.num[cell] = 0
      ELSE shaderRun.output.num[cell] * BetaDen * shaderRun.input.den
             = ( C5_Neighbour(cell, Left(cell)) + C5_Neighbour(cell, Right(cell))
               + C5_Neighbour(cell, Down(cell)) + C5_Neighbour(cell, Up(cell))
               + alpha * divergenceField[cell] * shaderRun.input.den )
               * BetaNum * shaderRun.output.den

-----------------------------------------------------------------------------
(* Properties of the boundary stage and of the obstacle mask *)

BoundaryRan == shaderRun.pass = "velocityBoundary"

MaskRan == shaderRun.pass = "obstacleMaskPass"

OnLeft(cell) == cell[1] = 0
OnRight(cell) == cell[1] = GridW - 1
OnBottom(cell) == cell[2] = 0
OnTop(cell) == cell[2] = GridH - 1

\* The cells of the edges the stage closes
ClosedEdge(cell) ==
  \/ OnBottom(cell) \/ OnTop(cell)
  \/ ~configuration.FlowEnabled /\ (OnLeft(cell) \/ OnRight(cell))

Corner(cell) == (OnLeft(cell) \/ OnRight(cell)) /\ (OnBottom(cell) \/ OnTop(cell))

\* The number of rectangles that cover a cell
Rectangles(cell) == ChevronSum(BoundaryUniforms(configuration), cell)

Negative(vec) == <<-vec[1], -vec[2]>>

\* C7: the boundary stage writes the velocity times -1 at every obstacle cell
\* and at every cell of a closed edge (all four edges with flow disabled, top
\* and bottom with flow enabled) and the velocity unchanged everywhere else.
C7_Reflection ==
  BoundaryRan =>
    \A cell \in Cells :
      shaderRun.output[cell] =
        IF ObstacleCell(cell) \/ ClosedEdge(cell)
        THEN Negative(shaderRun.input[cell]) ELSE shaderRun.input[cell]

\* With flow enabled: a covered cell off the edges and a cell of the top edge
\* are negated, a free cell of the left edge keeps its velocity
C7_Witness ==
  /\ BoundaryRan /\ configuration.FlowEnabled
  /\ \E cell \in InteriorCells :
       /\ ObstacleCell(cell)
       /\ shaderRun.output[cell] = Negative(shaderRun.input[cell])
  /\ \E cell \in Cells :
       /\ OnLeft(cell) /\ ~Corner(cell) /\ ~ObstacleCell(cell)
       /\ shaderRun.input[cell][1] # 0
       /\ shaderRun.output[cell] = shaderRun.input[cell]
  /\ \E cell \in Cells :
       /\ OnTop(cell) /\ ~ObstacleCell(cell)
       /\ shaderRun.output[cell] = Negative(shaderRun.input[cell])

\* The component of a velocity along the normal of the edge of a cell: x on
\* the left and right edges, y on the bottom and top edges
NormalAxis(cell) == IF OnLeft(cell) \/ OnRight(cell) THEN 1 ELSE 2
TangentAxis(cell) == 3 - NormalAxis(cell)

\* Cells of one closed edge only, free of obstacles
ClosedEdgeOnly(cell) == ClosedEdge(cell) /\ ~Corner(cell) /\ ~ObstacleCell(cell)

\* C8 as stated: at a cell of a closed edge the boundary stage negates the
\* component normal to the edge and leaves the tangential component unchanged.
C8_TangentialKept ==
  BoundaryRan =>
    \A cell \in Cells :
      ClosedEdgeOnly(cell) =>
        /\ shaderRun.output[cell][NormalAxis(cell)] = -shaderRun.input[cell][NormalAxis(cell)]
        /\ shaderRun.output[cell][TangentAxis(cell)] = shaderRun.input[cell][TangentAxis(cell)]

\* C8 amended: at a cell of a closed edge the boundary stage negates both the
\* normal and the tangential component.
C8_BothNegated ==
  BoundaryRan =>
    \A cell \in Cells :
      ClosedEdge(cell) =>
        /\ shaderRun.output[cell][NormalAxis(cell)] = -shaderRun.input[cell][NormalAxis(cell)]
        /\ shaderRun.output[cell][TangentAxis(cell)] = -shaderRun.input[cell][TangentAxis(cell)]

\* A cell of the right edge, closed, whose velocity has a tangential component
C8_Witness ==
  /\ BoundaryRan /\ ~configuration.FlowEnabled
  /\ \E cell \in Cells :
       /\ OnRight(cell) /\ ClosedEdgeOnly(cell)
       /\ shaderRun.input[cell][1] # 0 /\ shaderRun.input[cell][2] # 0
       /\ shaderRun.output[cell][2] = -shaderRun.input[cell][2]

\* C9: a cell that is on a closed edge and inside an obstacle, or inside more
\* than one rectangle, is negated once: the stage writes -1 times its velocity.
C9_NegatedOnce ==
  BoundaryRan =>
    \A cell \in Cells :
      ( \/ ClosedEdge(cell) /\ ObstacleCell(cell)
        \/ configuration.ChevronEnabled /\ Rectangles(cell) >= 2 ) =>
        shaderRun.output[cell] = Negative(shaderRun.input[cell])

\* A cell of a closed edge inside two rectangles, with a velocity
C9_Witness ==
  /\ BoundaryRan /\ configuration.ChevronEnabled
  /\ \E cell \in Cells :
       /\ ClosedEdge(cell) /\ Rectangles(cell) >= 2
       /\ shaderRun.input[cell][1] # 0 /\ shaderRun.input[cell][2] # 0
       /\ shaderRun.output[cell] = Negative(shaderRun.input[cell])

\* C10: the obstacle mask is 0 or 1 at every cell for every chevron setting, 1
\* exactly at the cells at least one rectangle covers, however many cover it,
\* and 0 everywhere when chevrons are disabled.
C10_BinaryMask ==
  MaskRan =>
    /\ \A cell \in Cells :
         /\ shaderRun.output[cell] \in {0, 1}
         /\ shaderRun.output[cell] = 1 <=>
              (configuration.ChevronEnabled /\ Rectangles(cell) >= 1)
    /\ ~configuration.ChevronEnabled => shaderRun.output = ZeroField

\* A mask with a cell two rectangles cover and a cell none covers
C10_Witness ==
  /\ MaskRan /\ configuration.ChevronEnabled
  /\ \E cell \in Cells : Rectangles(cell) >= 2 /\ shaderRun.output[cell] = 1
  /\ \E cell \in Cells : Rectangles(cell) = 0 /\ shaderRun.output[cell] = 0

-----------------------------------------------------------------------------
(* Properties of the divergence stage and of the projection stage *)

DivergenceRan == shaderRun.pass = "velocityDivergencePass"

GradientRan == shaderRun.pass = "pressureSubstractionPass"

EdgeCells == Cells \ InteriorCells

Neighbours(cell) == {Left(cell), Right(cell), Down(cell), Up(cell)}

\* The velocity component C11 differences: the centre's where the neighbour is
\* an obstacle
C11_Component(cell, other, axis) ==
  IF ObstacleCell(other) THEN shaderRun.input[cell][axis] ELSE shaderRun.input[other][axis]

\* C11 as stated: the divergence stage writes 0 at every obstacle cell and, at a
\* fluid cell with four neighbours, half of (vx(right) - vx(left)) + (vy(up) -
\* vy(down)) with the component of an obstacle neighbour replaced by the centre's.
C11_ObstacleAwareDivergence ==
  DivergenceRan =>
    \A cell \in Cells :
      IF ObstacleCell(cell)
      THEN shaderRun.output.num[cell] = 0
      ELSE cell \in InteriorCells =>
             shaderRun.output.num[cell] * 2
               = ( (C11_Component(cell, Right(cell), 1) - C11_Component(cell, Left(cell), 1))
                 + (C11_Component(cell, Up(cell), 2) - C11_Component(cell, Down(cell), 2)) )
                 * shaderRun.output.den

\* The velocity component C12 differences: the centre's where the neighbour is
\* past the edge of the grid
C12_Component(cell, other, axis) ==
  IF other \in Cells THEN shaderRun.input[other][axis] ELSE shaderRun.input[cell][axis]

\* A cell that is no obstacle and has no obstacle next to it
AwayFromObstacles(cell) ==
  /\ ~ObstacleCell(cell)
  /\ \A other \in Neighbours(cell) \cap Cells : ~ObstacleCell(other)

C13_Pressure(cell, other) ==
  IF other \notin Cells
  THEN IF other[1] = GridW THEN 0 ELSE shaderRun.pressure.num[cell]
  ELSE IF ObstacleCell(other) THEN shaderRun.pressure.num[cell]
  ELSE shaderRun.pressure.num[other]

\* C13 as stated: the projection stage writes (0, 0) at every obstacle cell and
\* v - 0.5 * (p_right - p_left, p_up - p_down) elsewhere, with the pressure past
\* the right edge taken as 0 and every other edge or obstacle neighbour replaced
\* by the centre pressure.
C13_ObstacleAwareProjection ==
  GradientRan =>
    \A cell \in Cells :
      IF ObstacleCell(cell)
      THEN shaderRun.output.num[cell] = <<0, 0>>
      ELSE /\ shaderRun.output.num[cell][1] * 2 * shaderRun.pressure.den
                = ( shaderRun.input[cell][1] * 2 * shaderRun.pressure.den
                  - (C13_Pressure(cell, Right(cell)) - C13_Pressure(cell, Left(cell))) )
                  * shaderRun.output.den
           /\ shaderRun.output.num[cell][2] * 2 * shaderRun.pressure.den
                = ( shaderRun.input[cell][2] * 2 * shaderRun.pressure.den
                  - (C13_Pressure(cell, Up(cell)) - C13_Pressure(cell, Down(cell))) )
                  * shaderRun.output.den

-----------------------------------------------------------------------------
(* Properties of the measurement probes *)

MeasureRan == shaderRun.pass = "measurementPass"

\* The samples taken in the frame: every sample of every updated probe
SamplesTaken ==
  UNION { {shaderRun.probes[i].samples[k] : k \in DOMAIN shaderRun.probes[i].samples} :
          i \in {j \in DOMAIN shaderRun.probes : shaderRun.probes[j].updated} }

\* C14: every value x of the thousandths with |x| < VALUE_SCALE / 2, and every
\* such value sampled in a frame, is decoded from its byte to within
\* VALUE_SCALE / 255 of x, and the encoding used the scale of the decoding.
C14_RoundTrip ==
  MeasureRan =>
    /\ \A value \in (1 - 500 * VALUE_SCALE)..(500 * VALUE_SCALE - 1) :
         abs(1000 * Decode(ToUnsignedByte(MeasurementShader(value, VALUE_SCALE),
                                          2000 * VALUE_SCALE)) - 510 * value)
           <= 2000 * VALUE_SCALE
    /\ \A sample \in SamplesTaken :
         /\ sample.valueScale = VALUE_SCALE
         /\ \A ch \in Channels :
              LET value == sample.channel[ch].value
                  decoded == sample.channel[ch].decoded
              IN /\ sample.channel[ch].byte \in 0..255
                 /\ 2 * abs(value) < 1000 * VALUE_SCALE =>
                      abs(1000 * decoded - 510 * value) <= 2000 * VALUE_SCALE

\* A frame with a negative and a positive sampled value in range that are not
\* decoded exactly, and a value out of range
C14_Witness ==
  /\ MeasureRan
  /\ \E sample \in SamplesTaken : \E ch \in Channels :
       /\ sample.channel[ch].value < 0
       /\ 2 * abs(sample.channel[ch].value) < 1000 * VALUE_SCALE
       /\ 1000 * sample.channel[ch].decoded # 510 * sample.channel[ch].value
  /\ \E sample \in SamplesTaken : \E ch \in Channels :
       /\ sample.channel[ch].value > 0
       /\ 2 * abs(sample.channel[ch].value) < 1000 * VALUE_SCALE
       /\ 1000 * sample.channel[ch].decoded # 510 * sample.channel[ch].value
  /\ \E sample \in SamplesTaken : \E ch \in Channels :
       2 * abs(sample.channel[ch].value) > 1000 * VALUE_SCALE

\* The x-coordinate of a probe in coordinate units, before clamping
ProbeX(m) == m.x * 16 * GridH

\* Coordinate t clamped to [0, 1]
Clamped01(t) == IF t < 0 THEN 0 ELSE IF t > OneCoord THEN OneCoord ELSE t

\* stored (thousandths) is the mean of the decoded samples rounded to 3 decimals
RoundedMean(stored, samples, ch) ==
  LET n == Cardinality(DOMAIN samples)
      sum == SumDecoded(samples, ch, n)
  IN /\ 2 * (1000 * sum - 510 * n * stored) <= 510 * n
     /\ 2 * (510 * n * stored - 1000 * sum) < 510 * n

\* display is the 3-decimal formatting of stored
Formats(display, stored) ==
  /\ display.negative <=> stored < 0
  /\ display.decimals \in 0..999
  /\ 1000 * display.whole + display.decimals = abs(stored)

\* Probe i of the frame holds what the claim says of an enabled probe
C15_ProbeSet(i) ==
  LET m == measurements[i]
      probe == shaderRun.probes[i]
      samples == probe.samples
  IN /\ probe.updated
     /\ IF m.type = "line"
          THEN /\ DOMAIN samples = 0..7
               /\ \A k \in DOMAIN samples :
                    /\ samples[k].position[1] = Clamped01(ProbeX(m))
                    /\ 16 * samples[k].position[2] = (2 * k + 1) * OneCoord
          ELSE /\ DOMAIN samples = {0}
               /\ samples[0].position[1] = Clamped01(ProbeX(m))
               /\ samples[0].position[2] = Clamped01(m.y * 16 * GridW)
     /\ \A k \in DOMAIN samples :
          /\ samples[k].position[1] \in 0..OneCoord
          /\ samples[k].position[2] \in 0..OneCoord
          /\ \A ch \in Channels :
               /\ samples[k].channel[ch].value =
                    TextureValue(shaderRun.field, ch, samples[k].position[1],
                                 samples[k].position[2])
               /\ samples[k].channel[ch].decoded =
                    Decode(ToUnsignedByte(MeasurementShader(samples[k].channel[ch].value,
                                                            VALUE_SCALE),
                                          2000 * VALUE_SCALE))
     /\ RoundedMean(probe.pressure, samples, "pressure")
     /\ RoundedMean(probe.velocityX, samples, "velX")
     /\ RoundedMean(probe.velocityY, samples, "velY")
     /\ Formats(probe.pressureDisplay, probe.pressure)
     /\ Formats(probe.velocityDisplay, probe.velocityMag)

\* C15 as stated: on each frame every enabled probe is set from its samples.
C15_EachFrame ==
  MeasureRan =>
    \A i \in DOMAIN measurements : measurements[i].enabled => C15_ProbeSet(i)

\* C15 (amended): on each frame that has a pressure and a velocity texture,
\* an enabled line probe is set to the mean of exactly 8 samples at its x and
\* y = (i + 0.5)/8 rounded to 3 decimals, an enabled point probe to its one
\* sample at (x, y) rounded to 3 decimals, the sample coordinates are clamped
\* to [0, 1] and the display strings format the stored values with 3
\* decimals; on a frame without one of the textures no probe is set.
C15_FrameWithFields ==
  MeasureRan =>
    IF p # undefined /\ v # undefined
      THEN \A i \in DOMAIN measurements : measurements[i].enabled => C15_ProbeSet(i)
      ELSE \A i \in DOMAIN measurements : ~shaderRun.probes[i].updated

\* A frame that sets an enabled line probe whose x is clamped and an enabled
\* point probe, with a stored value that is negative
C15_Witness ==
  /\ MeasureRan
  /\ p # undefined /\ v # undefined
  /\ \E i \in DOMAIN measurements :
       /\ measurements[i].type = "line" /\ measurements[i].enabled
       /\ ProbeX(measurements[i]) > OneCoord
       /\ shaderRun.probes[i].updated
       /\ shaderRun.probes[i].pressure < 0
  /\ \E i \in DOMAIN measurements :
       /\ measurements[i].type = "point" /\ measurements[i].enabled
       /\ measurements[i].y # 500
       /\ shaderRun.probes[i].updated

-----------------------------------------------------------------------------
(* Properties of pausing and of Reset *)

FieldTargets == {"velocityRT", "divergenceRT", "pressureRT", "colorRT"}

\* The step from the current state is a frame run with Simulate off
PausedFrame == ~configuration.Simulate /\ passLog' # <<>>

\* The step from the current state is a frame that runs a simulation step
SimulatedFrame == configuration.Simulate /\ passLog' # <<>>

\* The sample passes updateMeasurements runs for the probes: 8 per enabled
\* line probe, 1 per enabled point probe
ProbeSamples ==
  {<<i, k>> \in (DOMAIN measurements) \X (1..8) :
     /\ measurements[i].enabled
     /\ k <= IF measurements[i].type = "line" THEN 8 ELSE 1}

\* A paused frame leaves the fields, their buffers and the smoke clock alone
FieldsFrozen ==
  /\ UNCHANGED <<v, c, d, p, bufferContent, emitterPositions>>
  /\ \A rt \in FieldTargets : rtIndex'[rt] = rtIndex[rt]
  /\ \A pass \in {"velocityAdvectionPass", "colorAdvectionPass", "pressurePass",
                  "touchColorAdditionPass"} : uniforms'[pass] = uniforms[pass]
  /\ smokeTimeAdvance' = 0
  /\ \A i \in DOMAIN passLog' : passLog'[i].target[1] \notin FieldTargets

\* The one visualization pass of the frame, drawn to the screen
VisualizationRan ==
  \E i \in DOMAIN passLog' :
    /\ passLog'[i].pass = "compositionPass"
    /\ passLog'[i].target = screen
    /\ \A j \in DOMAIN passLog' : passLog'[j].pass = "compositionPass" => j = i
    /\ Visualization(State, configuration) # undefined =>
         \E r \in passLog'[i].reads :
           r.uniform = "colorBuffer" /\ r.texture = Visualization(State, configuration)

\* Every enabled probe is sampled from the pressure and velocity textures
\* the frame started with
ProbesRan ==
  LET S == {i \in DOMAIN passLog' : passLog'[i].pass = "measurementPass"}
  IN /\ Cardinality(S) = Cardinality(ProbeSamples)
     /\ \A i \in S : \A r \in passLog'[i].reads :
          /\ r.uniform = "pressureTexture" => r.texture = p
          /\ r.uniform = "velocityTexture" => r.texture = v

NoProbeRan == \A i \in DOMAIN passLog' : passLog'[i].pass # "measurementPass"

\* A simulation step starts from the velocity and the dye the last step left:
\* its first pass advects v, and the first pass that reads dye reads c
ResumesFromFields ==
  /\ v # undefined =>
       /\ passLog'[1].pass = "velocityAdvectionPass"
       /\ \A r \in passLog'[1].reads : r.texture = v
  /\ c # undefined =>
       \A i \in DOMAIN passLog' :
         (/\ \E r \in passLog'[i].reads : FieldOf(r.texture) = "dye"
          /\ \A j \in 1..(i - 1) : \A r \in passLog'[j].reads : FieldOf(r.texture) # "dye")
         => \A r \in passLog'[i].reads : FieldOf(r.texture) = "dye" => r.texture = c

\* C16 as stated: a paused frame freezes the fields and the smoke clock, runs
\* the visualization and samples every enabled probe.
C16_ProbesAlwaysRun ==
  [][PausedFrame => FieldsFrozen /\ VisualizationRan /\ ProbesRan]_vars

\* C16 (amended): a frame run with Simulate off writes none of the velocity,
\* divergence, pressure and dye buffers and does not advance the smoke clock;
\* it runs the visualization, and it samples the enabled probes on the frozen
\* pressure and velocity if both textures are defined and samples no probe
\* otherwise; the next simulation step starts from the velocity and dye the
\* last step left.
C16_PausedFrameFreezes ==
  [][/\ PausedFrame =>
          /\ FieldsFrozen
          /\ VisualizationRan
          /\ IF p # undefined /\ v # undefined THEN ProbesRan ELSE NoProbeRan
     /\ SimulatedFrame => ResumesFromFields]_vars

\* A paused frame after a step, with the pointer down, that sampled the probes
C16_Witness ==
  /\ ~configuration.Simulate
  /\ passLog # <<>>
  /\ simSteps > 0
  /\ Len(inputTouches) > 0
  /\ v # undefined /\ c # undefined /\ p # undefined
  /\ HasPass("measurementPass")
  /\ HasPass("compositionPass")

\* The step from the current state is the first simulation step after a Reset
StepAfterReset == SimulatedFrame /\ simSteps > 0 /\ v = undefined /\ c = undefined

BaselineTextures == {velocityInitTexture, colorInitTexture}

\* Entry i of the step's log reads velocity and dye only from the baseline
\* textures or from buffers an earlier pass of the same step wrote
ReadsNothingOlder(i) ==
  \A r \in passLog'[i].reads :
    FieldOf(r.texture) \in {"velocity", "dye"} =>
      \/ r.texture \in BaselineTextures
      \/ \E j \in 1..(i - 1) : passLog'[j].target = r.texture

\* C17: the first simulation step after a Reset advects the velocity from the
\* baseline velocity texture and the dye from the baseline dye texture, and
\* none of its passes reads velocity or dye written before the Reset.
C17_StepAfterResetFromBaseline ==
  [][StepAfterReset =>
       /\ \A i \in DOMAIN passLog' :
            passLog'[i].pass = "velocityAdvectionPass" =>
              \A r \in passLog'[i].reads : r.texture = velocityInitTexture
       /\ \A i \in DOMAIN passLog' :
            passLog'[i].pass = "colorAdvectionPass" =>
              \A r \in passLog'[i].reads :
                /\ r.uniform = "inputTexture" => r.texture = colorInitTexture
                /\ FieldOf(r.texture) = "velocity" => ReadsNothingOlder(i)
       /\ \A i \in DOMAIN passLog' : ReadsNothingOlder(i)]_vars

\* The state Reset leaves when invoked in the current state
OnceReset == ResetResult(State)

\* C18: invoking Reset in the state a Reset has left changes nothing: the
\* advection inputs, v and c, the buffers and their indices and every other
\* part of the state are those of the single Reset.
C18_ResetIdempotent == ResetResult(OnceReset) = OnceReset

\* The state a Reset leaves after simulation steps with a pointer down, in
\* which a further Reset has nothing to change
C18_Witness ==
  /\ simSteps = 2
  /\ passLog = <<>>
  /\ v = undefined /\ c = undefined
  /\ Len(inputTouches) > 0
  /\ uniforms["velocityAdvectionPass"].inputTexture = velocityInitTexture
  /\ uniforms["colorAdvectionPass"].inputTexture = colorInitTexture
  /\ uniforms["touchColorAdditionPass"].color # DEFAULT_IMAGE
  /\ State = OnceReset

-----------------------------------------------------------------------------
(* Properties of the smoke emitter stage *)

SmokeRan == shaderRun.pass = "smokeEmitterPass"

\* C19: in a step with smoke enabled the emitters whose index is below
\* SmokeEmitters are enabled and the others are not, whatever the count was in
\* the step before; an emitter that is not enabled adds 0 to every cell; and
\* the dye written at a cell is the dye read plus an amount that is not
\* negative.
C19_Emitters ==
  SmokeRan =>
    /\ \A k \in 0..3 :
         /\ shaderRun.emitters[k].z = (IF k < configuration.SmokeEmitters THEN 1 ELSE 0)
         /\ emitterPositions[k] = shaderRun.emitters[k].z
         /\ shaderRun.emitters[k].z = 0 =>
              \A cell \in SmokeCells : shaderRun.output.contribution[k][cell] = 0
    /\ \A cell \in SmokeCells :
         /\ shaderRun.output.color[cell] >= shaderRun.input[cell]
         /\ \A k \in 0..3 : shaderRun.output.contribution[k][cell] >= 0

\* A smoke pass with a count other than the initial one in which an enabled
\* emitter adds dye to a cell that already holds some, at a cell where an
\* emitter that is not enabled would add dye too
C19_Witness ==
  /\ SmokeRan
  /\ shaderRun.outcome = "hermite"
  /\ configuration.SmokeEmitters = 1
  /\ \E cell \in SmokeCells :
       /\ shaderRun.input[cell] > 0
       /\ shaderRun.output.color[cell] > shaderRun.input[cell]
  /\ \E cell \in SmokeCells : \E k \in 1..3 :
       /\ shaderRun.output.contribution[k][cell] = 0
       /\ emitterContributionAlwaysOn(cell, shaderRun.emitters[k], configuration.SmokeRadius,
                                      700, "hermite") > 0

-----------------------------------------------------------------------------
(* Properties of resolution changes *)

\* C20: the velocity, divergence, pressure and dye render targets all have
\* the resolution Scale times the current window size (here in tenths of a
\* pixel), so no event has resized some of them and not the others.
C20_SharedResolution ==
  \A rt \in FieldTargets :
    /\ rtResolution[rt] = <<configuration.Scale * window.innerWidth,
                            configuration.Scale * window.innerHeight>>
    /\ rtResolution[rt] = resolution

\* The targets after the window and the Scale have both been changed
C20_Witness ==
  /\ configuration.Scale # InitConfiguration.Scale
  /\ window = [innerWidth |-> 1280, innerHeight |-> 600]
  /\ rtResolution["divergenceRT"] = <<1280 * configuration.Scale, 600 * configuration.Scale>>
  /\ rtResolution["measurementRT"] # rtResolution["divergenceRT"]

\* C21 as stated: no render target is ever created or resized with a width or
\* a height that is not strictly positive.
C21_PositiveResolution ==
  \A rt \in FieldTargets :
    /\ rtResolution[rt][1] > 0
    /\ rtResolution[rt][2] > 0

-----------------------------------------------------------------------------
(* Properties of the page load *)

\* C22 as stated: once the page has loaded without the half-float extensions
\* the failure has been reported and nothing has run: no frame of the render
\* loop (no render pass) and no simulation step.
C22_AbortWithoutExtensions ==
  (startup.loaded /\ ~startup.extensions) =>
    /\ startup.alerted
    /\ simSteps = 0
    /\ passLog = <<>>

-----------------------------------------------------------------------------
(* Properties of a failing readback *)

\* A frame has just run with the readback of a sample of probe i failing
ReadbackFailedOn(i) ==
  /\ shaderRun.pass = "readback"
  /\ shaderRun.failure.outcome # "ok"
  /\ shaderRun.failure.probe = i

\* Probe i holds the values it held before the frame
KeepsLastKnown(i) == probeValues.values[i] = shaderRun.before[i]

\* C23 as stated: after a frame, the probe whose readback failed holds the
\* pressure, velocity and display values it held before the frame, and so does
\* a disabled probe and every probe while p or v is undefined.
C23_LastKnownRetained ==
  shaderRun.pass = "readback" =>
    \A i \in DOMAIN measurements :
      (ReadbackFailedOn(i) \/ ~measurements[i].enabled \/ p = undefined \/ v = undefined)
        => KeepsLastKnown(i)

-----------------------------------------------------------------------------
(* Properties of the fluid presets *)

Coefficients(cfg) == <<cfg.Viscosity, cfg.ColorDecay>>

PresetCoefficients(value) == <<fluidPresets[value].viscosity, fluidPresets[value].colorDecay>>

\* C24: whenever FluidPreset names a preset other than Custom, Viscosity and
\* ColorDecay are that preset's two values; from every reachable configuration,
\* selecting a preset other than Custom sets both coefficients to its values,
\* selecting Custom changes neither, and editing either coefficient sets
\* FluidPreset to Custom and changes that coefficient only.
C24_PresetCoefficients ==
  /\ configuration.FluidPreset # "Custom" =>
       Coefficients(configuration) = PresetCoefficients(configuration.FluidPreset)
  /\ \A value \in DOMAIN fluidPresets :
       LET after == FluidPresetChange(configuration, value)
       IN /\ after.FluidPreset = value
          /\ value # "Custom" => Coefficients(after) = PresetCoefficients(value)
          /\ value = "Custom" => Coefficients(after) = Coefficients(configuration)
  /\ \A x \in CoefficientValues :
       LET viscosity == CoefficientChange(configuration, "Viscosity", x)
           colorDecay == CoefficientChange(configuration, "ColorDecay", x)
       IN /\ viscosity.FluidPreset = "Custom" /\ colorDecay.FluidPreset = "Custom"
          /\ Coefficients(viscosity) = <<x, configuration.ColorDecay>>
          /\ Coefficients(colorDecay) = <<configuration.Viscosity, x>>

\* A preset was selected after the coefficients had been edited away from it
C24_Witness ==
  /\ configuration.FluidPreset = "Honey"
  /\ Coefficients(configuration) = <<250, 10>>
  /\ Coefficients(configuration) # Coefficients(InitConfiguration)

-----------------------------------------------------------------------------
(* Properties of the projection stage at 32 and more iterations *)

\* The projection has run with at least the default 32 iterations
ProjectedWithIterations ==
  /\ shaderRun.pass = "pressureSubstractionPass"
  /\ "scale" \in DOMAIN pressureField
  /\ pressureField.passes >= InitConfiguration.Iterations

\* The sum of |divergence| before the projection, brought to the denominator
\* 8 * pressureField.scale of the sum after it
DivergenceBefore ==
  BigScale(pressureField.scale, 4 * SumAbs(divergenceField, Cells))

\* C25 as stated: after a projection with n >= 32 iterations the mean absolute
\* divergence of the velocity is strictly smaller than before it, and with
\* n + 1 iterations it is not larger than with n.
C25_DivergenceReduced ==
  ProjectedWithIterations =>
    LET after == DivergenceAfter(shaderRun.input, pressureField)
        more == DivergenceAfter(shaderRun.input, PressurePassLong(pressureField, divergenceField))
    IN /\ BigLess(after, DivergenceBefore)
       /\ ~BigLess(BigScale(after, BetaDen), more)

-----------------------------------------------------------------------------
(* Properties of the pointer listeners *)

IsMouse(record) == record.id = mouseId
IsTouch(record) == record.id # mouseId

TouchRecords(touches) == SelectSeq(touches, IsTouch)

\* C26 as stated: after a mouseup, whatever events came before, the active
\* pointer list holds no record with id "mouse", and the records created by
\* touchstart are the ones it held before.
C26_MouseUpRemovesMouse ==
  LET after == MouseUpResult(inputTouches)
  IN /\ \A k \in DOMAIN after : ~IsMouse(after[k])
     /\ TouchRecords(after) = TouchRecords(inputTouches)

\* C27 as stated: a mousemove changes the record with id "mouse" only, and
\* nothing when there is none; a record created by touchstart is changed only
\* by a touchmove with its identifier; a new record has displacement (0, 0).
C27_MoveOwnRecordOnly ==
  \A pos \in PointerPositions :
    /\ LET after == MouseMoveResult(inputTouches, pos)
       IN /\ Len(after) = Len(inputTouches)
          /\ \A k \in DOMAIN inputTouches : IsTouch(inputTouches[k]) => after[k] = inputTouches[k]
    /\ \A n \in PointerTouchIds :
         LET after == TouchMoveResult(inputTouches, n, pos)
         IN /\ Len(after) = Len(inputTouches)
            /\ \A k \in DOMAIN inputTouches :
                 inputTouches[k].id # TouchId(n) => after[k] = inputTouches[k]
    /\ \A id \in {mouseId} \cup {TouchId(n) : n \in PointerTouchIds} :
         LET after == PushPointer(inputTouches, id, pos)
         IN after[Len(after)].input.z = 0 /\ after[Len(after)].input.w = 0

\* C28 as stated: after a touchcancel every touch record left has an identifier
\* among the touches still active; after a touchend no record with the ended
\* identifier is left.
C28_CancelKeepsActiveOnly ==
  /\ \A active \in ActiveTouchLists :
       LET after == TouchCancelResult(inputTouches, active)
       IN \A k \in DOMAIN after :
            IsTouch(after[k]) => \E j \in DOMAIN active : after[k].id = TouchId(active[j])
  /\ \A n \in PointerTouchIds :
       LET after == TouchEndResult(inputTouches, n)
       IN \A k \in DOMAIN after : after[k].id # TouchId(n)

-----------------------------------------------------------------------------
(* The boundary stage with the Boundaries toggle off *)

DomainEdge(cell) == OnLeft(cell) \/ OnRight(cell) \/ OnBottom(cell) \/ OnTop(cell)

\* C29 as stated: with Boundaries off the boundary stage runs only when
\* ChevronEnabled is on, and then it reflects obstacle cells only: a cell of
\* the domain edge that no rectangle covers keeps its velocity.
C29_EdgesKeptWithoutBoundaries ==
  (BoundaryRan /\ ~configuration.Boundaries) =>
    /\ configuration.ChevronEnabled
    /\ \A cell \in Cells :
         (DomainEdge(cell) /\ ~ObstacleCell(cell)) =>
           shaderRun.output[cell] = shaderRun.input[cell]

-----------------------------------------------------------------------------
(* Properties of the list of measurement probes *)

\* The list ms without its k-th probe, the others in their order
Without(ms, k) ==
  [j \in 1..(Len(ms) - 1) |-> IF j < k THEN ms[j] ELSE ms[j + 1]]

\* The folder at place k is the folder of the k-th probe
FolderOf(k) ==
  /\ k \in DOMAIN measurements
  /\ measurementFolders[k].name =
       <<IF measurements[k].type = "line" THEN "Line" ELSE "Point", k>>

\* C30: the list of probes never holds more than MAX_MEASUREMENTS = 8 probes;
\* at the limit Add Line and Add Point leave the list as it is; every probe has
\* its folder, and the Remove button of a folder leaves the list without the
\* probe of that folder, the other probes unchanged and in their order.
C30_ProbeList ==
  /\ Len(measurements) <= MAX_MEASUREMENTS
  /\ Len(measurements) = MAX_MEASUREMENTS =>
       /\ addLine(measurements) = measurements
       /\ addPoint(measurements) = measurements
  /\ Len(measurementFolders) = Len(measurements)
  /\ \A k \in DOMAIN measurementFolders :
       /\ FolderOf(k)
       /\ remove(measurements, measurementFolders[k].i) = Without(measurements, k)

\* A full list after adds and a remove: the first default probe is gone, the
\* second one is now first, before a point probe and a line added later
C30_Witness ==
  /\ Len(measurements) = MAX_MEASUREMENTS
  /\ measurements[1].x = 1300
  /\ measurements[2].type = "point"
  /\ measurements[MAX_MEASUREMENTS].type = "line"

=============================================================================
